---- MODULE Spec2Model ----
(***************************************************************************)
(* The playback core of src/engine/player.rs as a state machine.           *)
(*                                                                         *)
(* The state is one Player (its fields, its channels), the Module it       *)
(* borrows, and the build flavour.  The only operation a host can invoke   *)
(* after construction is Player::process(); it is one action, Process,     *)
(* which runs the mixer loop, the tick test and, when due, advance_row,    *)
(* play_row and process_tick, exactly in the order of the source.          *)
(*                                                                         *)
(* Sequences are 1-based: the source's samples[i], patterns[i][r],         *)
(* playlist[i], channels[i] are the model's X[i + 1].                      *)
(*                                                                         *)
(* Q32.32 fixed-point values (freq, position) are raw integers with        *)
(* FracBits fractional bits and IntBits integer bits instead of 32 + 32,   *)
(* so that every raw value fits a 32-bit integer of TLC.                   *)
(***************************************************************************)
EXTENDS Integers, Sequences, FiniteSets, TLC

VARIABLES
    module,            \* the &Module the player borrows (never written)
    samplerate,        \* Player.samplerate
    overflow_checks,   \* build flavour: TRUE = overflow panics, FALSE = wraps
    global_volume,     \* Player.global_volume
    current_position,  \* Player.current_position
    current_pattern,   \* Player.current_pattern
    current_row,       \* Player.current_row
    current_tempo,     \* Player.current_tempo
    current_speed,     \* Player.current_speed
    tick_counter,      \* Player.tick_counter
    ticks_passed,      \* Player.ticks_passed
    channels,          \* Player.channels
    halt,              \* "none", or why the process stopped (a panic, exit(0))
    out,               \* what the last process() call returned
    ran,               \* the steps the last process() call ran, in order
    voices,            \* per channel, what Channel::process did in the last call
    since_row,         \* process() calls since the last play_row (-1: none yet)
    row_gap            \* process() calls between the last two play_row runs

vars == <<module, samplerate, overflow_checks, global_volume, current_position,
          current_pattern, current_row, current_tempo, current_speed,
          tick_counter, ticks_passed, channels, halt, out, ran, voices,
          since_row, row_gap>>

----------------------------------------------------------------------------
(* Bounds of the model *)

\* channels (and columns per row) modelled; the source has 64
NumChannels == 2
\* fractional bits of a fixed-point value; the source has 32
FracBits == 4
\* integer bits of a fixed-point value; the source has 32
IntBits == 24
\* the largest tick_counter from which process() is still followed
MaxTickCounter == 1000
\* frames of audio in a sample of the runs over one voice
AudioLen == 4
\* rows of the pattern that the runs over pattern breaks break into
PatternRows == 256

----------------------------------------------------------------------------
(* Program constants *)

PERIOD == 14317056
ROW_NOT_STARTED == 65535
SKIP_MARKER == 254
END_MARKER == 255
DEFAULT_FREQ == 8363
DEFAULT_VOLUME == 64
MAX_VOLUME == 64

ONE == 2 ^ FracBits
FixModulus == 2 ^ (IntBits + FracBits)
I32Max == 2147483647
I32Min == (-2147483647) - 1
I16Max == 32767
I16Min == -32768

----------------------------------------------------------------------------
(* How the process ends.  halt is "none" while it runs; a panic is named   *)
(* by its cause: "panic: not yet implemented" (todo!()), "panic:           *)
(* arithmetic overflow", "panic: position overflow", "panic: division by   *)
(* zero", and "panic: X index" for an index out of the bounds of X.        *)

NoHalt == "none"
ExitEndOfSong == "exit(0)"

----------------------------------------------------------------------------
(* Integer helpers *)

Min(a, b) == IF a < b THEN a ELSE b
Max(a, b) == IF a > b THEN a ELSE b

\* value & 0xF0 >> 4 and value & 0x0F
HiNibble(value) == (value \div 16) % 16
LoNibble(value) == value % 16

\* floor(a * b / c) for a, b >= 0, c > 0, without forming a * b when it is large
RECURSIVE MulDiv(_, _, _)
MulDiv(a, b, c) ==
    IF a = 0 \/ b = 0 THEN 0
    ELSE IF a <= 46340 /\ b <= 46340 THEN (a * b) \div c
    ELSE IF a < b THEN MulDiv(b, a, c)
    ELSE (a \div c) * b + MulDiv(a % c, b, c)

\* to_num::<u32>() / to_num::<usize>() of a fixed-point value: its integer part
ToInt(fx) == fx \div ONE
\* U32F32::from(n)
FromInt(n) == n * ONE

----------------------------------------------------------------------------
(* Playback modes and module accessors *)

ModeIsS3M == module.mode = "S3M"
ModeIsIT == module.mode \in {"IT", "ITSample"}

\* self.module.samples[i as usize]
SampleAt(i) == module.samples[i + 1]
SampleInRange(i) == i < Len(module.samples)

----------------------------------------------------------------------------
(* The lookup tables of engine::lut, which the repository's files do not   *)
(* hold: multipliers in units of 1/Q14, from the tables' description.      *)

Q14 == 16384
PITCH_TABLE_LEN == 120
SemitoneQ14 == <<16384, 17358, 18390, 19484, 20643, 21870,
                 23170, 24548, 26008, 27554, 29193, 30929>>
LinearUpBitsQ14 == <<16399, 16414, 16443, 16503, 16622, 16864, 17358, 18390>>
LinearDownBitsQ14 == <<16369, 16354, 16325, 16266, 16149, 15918, 15464, 14596>>
FineUpBitsQ14 == <<16388, 16391, 16399, 16414>>
FineDownBitsQ14 == <<16380, 16377, 16369, 16354>>

\* the product of bits[k] over the set bits k of x: 2^(x / unit) in 1/Q14
RECURSIVE BitProduct(_, _, _)
BitProduct(x, k, bits) ==
    IF k > Len(bits) \/ x = 0 THEN Q14
    ELSE LET rest == BitProduct(x \div 2, k + 1, bits)
         IN  IF x % 2 = 1 THEN (rest * bits[k]) \div Q14 ELSE rest

LINEAR_UP(x) == BitProduct(x, 1, LinearUpBitsQ14)
LINEAR_DOWN(x) == BitProduct(x, 1, LinearDownBitsQ14)
FINE_LINEAR_UP(x) == BitProduct(x, 1, FineUpBitsQ14)
FINE_LINEAR_DOWN(x) == BitProduct(x, 1, FineDownBitsQ14)

\* PITCH_TABLE[note] * U32F32::from(base_frequency), as a raw fixed-point value
PitchFreq(note, base_frequency) ==
    LET semi == MulDiv(FromInt(base_frequency), SemitoneQ14[(note % 12) + 1], Q14)
        oct == note \div 12
    IN  IF oct >= 5 THEN semi * (2 ^ (oct - 5)) ELSE semi \div (2 ^ (5 - oct))

----------------------------------------------------------------------------
(* A frame is a channel being worked on by one of its methods, with the    *)
(* panic the method has run into, if any: [c |-> channel, halt |-> why].   *)

Frame(c) == [c |-> c, halt |-> NoHalt]
Panic(F, why) == [F EXCEPT !.halt = why]
Ok(F) == F.halt = NoHalt

\* does a u8 result keep its value: in range always, out of range only in a
\* build that wraps
U8Fits(v) == (v >= 0 /\ v <= 255) \/ ~overflow_checks
WrapU8(v) == v % 256

SetVolume(F, v) ==
    IF ~Ok(F) THEN F
    ELSE IF U8Fits(v) THEN [F EXCEPT !.c.volume = WrapU8(v)]
    ELSE Panic(F, "panic: arithmetic overflow")

\* a fixed-point result: in range it is stored; out of range the build decides
SetFreq(F, v) ==
    IF ~Ok(F) THEN F
    ELSE IF v >= 0 /\ v < FixModulus THEN [F EXCEPT !.c.freq = v]
    ELSE IF overflow_checks THEN Panic(F, "panic: arithmetic overflow")
    ELSE [F EXCEPT !.c.freq = v % FixModulus]

SetPosition(F, v) ==
    IF ~Ok(F) THEN F
    ELSE IF v >= 0 /\ v < FixModulus THEN [F EXCEPT !.c.position = v]
    ELSE IF overflow_checks THEN Panic(F, "panic: position overflow")
    ELSE [F EXCEPT !.c.position = v % FixModulus]

\* self.freq *= table entry
ScaleFreq(F, q14) == SetFreq(F, MulDiv(F.c.freq, q14, Q14))

\* self.freq = freq_from_period(p), for a period that a subtraction may
\* have taken below 0
FreqFromPeriod(F, p) ==
    IF p = 0 THEN Panic(F, "panic: division by zero")
    ELSE IF p > 0 THEN SetFreq(F, FromInt(PERIOD) \div p)
    ELSE IF overflow_checks THEN Panic(F, "panic: arithmetic overflow")
    \* the u32 period wrapped to nearly 2^32: the quotient is below 1 / ONE
    ELSE SetFreq(F, 0)

\* freq_from_period(period(self.freq.to_num::<u32>()) + delta)
AmigaSlide(F, delta) ==
    IF ~Ok(F) THEN F
    ELSE IF ToInt(F.c.freq) = 0 THEN Panic(F, "panic: division by zero")
    ELSE FreqFromPeriod(F, (PERIOD \div ToInt(F.c.freq)) + delta)

----------------------------------------------------------------------------
(* Channel::porta_up, Channel::porta_down *)

\* the memory an effect of Exx/Fxx, Dxy or Qxy reads and writes, by mode;
\* any other mode reaches todo!()
RouteMemory(F, value, it_slot) ==
    IF ~Ok(F) THEN F
    ELSE IF ModeIsS3M THEN
        (IF value # 0 THEN [F EXCEPT !.c.s3m_effect_memory = value] ELSE F)
    ELSE IF ModeIsIT THEN
        (IF value # 0 THEN [F EXCEPT !.c[it_slot] = value] ELSE F)
    ELSE Panic(F, "panic: not yet implemented")

\* the same read from the memory of the IT modes in every mode
RoutedValueBySlot(F, value, it_slot) ==
    IF value # 0 THEN value ELSE F.c[it_slot]

\* the parameter in force after the routing above
RoutedValue(F, value, it_slot) ==
    IF value # 0 THEN value
    ELSE IF ModeIsS3M THEN F.c.s3m_effect_memory
    ELSE F.c[it_slot]

\* lines 82-120
PortaUpSlide(F, linear, tp, value) ==
    IF ~Ok(F) THEN F
    ELSE IF linear THEN
        IF HiNibble(value) = 14 THEN
            (IF tp = 0 THEN ScaleFreq(F, FINE_LINEAR_UP(LoNibble(value))) ELSE F)
        ELSE IF HiNibble(value) = 15 THEN
            (IF tp = 0 THEN ScaleFreq(F, LINEAR_UP(LoNibble(value))) ELSE F)
        ELSE
            (IF tp > 0 THEN ScaleFreq(F, LINEAR_UP(value)) ELSE F)
    ELSE
        IF HiNibble(value) = 14 THEN
            (IF tp = 0 THEN AmigaSlide(F, -LoNibble(value)) ELSE F)
        ELSE IF HiNibble(value) = 15 THEN
            (IF tp = 0 THEN AmigaSlide(F, -(LoNibble(value) * 4)) ELSE F)
        ELSE
            (IF tp > 0 THEN AmigaSlide(F, -(value * 4)) ELSE F)

porta_up(F, linear, tp, value) ==
    PortaUpSlide(RouteMemory(F, value, "porta_memory"), linear, tp,
                 RoutedValue(F, value, "porta_memory"))

\* lines 142-180
PortaDownSlide(F, linear, tp, value) ==
    IF ~Ok(F) THEN F
    ELSE IF linear THEN
        IF HiNibble(value) = 14 THEN
            (IF tp = 0 THEN ScaleFreq(F, FINE_LINEAR_DOWN(LoNibble(value))) ELSE F)
        ELSE IF HiNibble(value) = 15 THEN
            (IF tp = 0 THEN ScaleFreq(F, LINEAR_DOWN(LoNibble(value))) ELSE F)
        ELSE
            (IF tp > 0 THEN ScaleFreq(F, LINEAR_DOWN(value)) ELSE F)
    ELSE
        IF HiNibble(value) = 14 THEN
            (IF tp = 0 THEN AmigaSlide(F, LoNibble(value)) ELSE F)
        ELSE IF HiNibble(value) = 15 THEN
            (IF tp = 0 THEN AmigaSlide(F, LoNibble(value) * 4) ELSE F)
        ELSE
            (IF tp > 0 THEN AmigaSlide(F, value * 4) ELSE F)

porta_down(F, linear, tp, value) ==
    PortaDownSlide(RouteMemory(F, value, "porta_memory"), linear, tp,
                   RoutedValue(F, value, "porta_memory"))

----------------------------------------------------------------------------
(* Channel::tone_portamento *)

\* lines 201-203 and 206-208: a slide does not pass desired_freq
StopAtDesired(G, desired_freq, rising) ==
    IF Ok(G) /\ (IF rising THEN G.c.freq > desired_freq
                 ELSE G.c.freq < desired_freq)
    THEN [G EXCEPT !.c.freq = desired_freq] ELSE G

\* lines 212-227: the period the Amiga slide arrives at
TonePortaPeriod(F, value, desired_freq, desired_period) ==
    IF F.c.freq < desired_freq THEN
        Max(Max((PERIOD \div ToInt(F.c.freq)) - value * 4, 0), desired_period)
    ELSE IF F.c.freq > desired_freq THEN
        Min((PERIOD \div ToInt(F.c.freq)) + value * 4, desired_period)
    ELSE desired_period

\* the slide toward desired_freq, lines 198-229
TonePortaSlide(F, linear, value, desired_freq) ==
    IF linear THEN
        IF F.c.freq < desired_freq THEN
            StopAtDesired(ScaleFreq(F, LINEAR_UP(value)), desired_freq, TRUE)
        ELSE IF F.c.freq > desired_freq THEN
            StopAtDesired(ScaleFreq(F, LINEAR_DOWN(value)), desired_freq, FALSE)
        ELSE F
    ELSE
        IF ToInt(desired_freq) = 0 THEN Panic(F, "panic: division by zero")
        ELSE IF F.c.freq # desired_freq /\ ToInt(F.c.freq) = 0
        THEN Panic(F, "panic: division by zero")
        ELSE FreqFromPeriod(F,
                TonePortaPeriod(F, value, desired_freq,
                                PERIOD \div ToInt(desired_freq)))

\* lines 195-229, once the memory is written
TonePortaToward(F, linear, value) ==
    IF F.c.last_note >= PITCH_TABLE_LEN THEN Panic(F, "panic: PITCH_TABLE index")
    ELSE IF ~SampleInRange(F.c.current_sample_index)
    THEN Panic(F, "panic: samples index")
    ELSE TonePortaSlide(F, linear, value,
            PitchFreq(F.c.last_note,
                      SampleAt(F.c.current_sample_index).base_frequency))

\* tone_portamento without the memory of lines 184-188
tone_portamento_forgetful(F, note, linear, value) ==
    IF ~Ok(F) THEN F
    ELSE TonePortaToward(
            [F EXCEPT !.c.last_note = IF note.kind = "On" THEN note.key ELSE @],
            linear, value)

tone_portamento(F, note, linear, value) ==
    IF ~Ok(F) THEN F
    ELSE TonePortaToward(
            [F EXCEPT !.c.porta_memory = IF value # 0 THEN value ELSE @,
                      !.c.last_note = IF note.kind = "On" THEN note.key ELSE @],
            linear, IF value # 0 THEN value ELSE F.c.porta_memory)

----------------------------------------------------------------------------
(* Channel::vol_slide *)

\* the clamp that ends vol_slide and retrigger
ClampVolume(F) ==
    IF Ok(F) /\ F.c.volume > MAX_VOLUME THEN [F EXCEPT !.c.volume = MAX_VOLUME] ELSE F

\* volume.saturating_sub(n)
SaturatingSub(a, n) == Max(a - n, 0)

\* lines 251-272 without the fast_volume_slides of lines 265 and 269
VolSlideStepSlow(F, upper, lower, tp) ==
    IF ~Ok(F) THEN F
    ELSE IF lower = 15 /\ upper > 0 THEN
        (IF tp = 0 THEN SetVolume(F, F.c.volume + upper) ELSE F)
    ELSE IF upper = 15 /\ lower > 0 THEN
        (IF tp = 0 THEN SetVolume(F, SaturatingSub(F.c.volume, lower)) ELSE F)
    ELSE IF lower = 0 THEN
        (IF tp > 0 THEN SetVolume(F, F.c.volume + upper) ELSE F)
    ELSE
        (IF tp > 0 THEN SetVolume(F, SaturatingSub(F.c.volume, lower)) ELSE F)

\* lines 251-272
VolSlideStep(F, upper, lower, tp) ==
    IF ~Ok(F) THEN F
    ELSE IF lower = 15 /\ upper > 0 THEN
        (IF tp = 0 THEN SetVolume(F, F.c.volume + upper) ELSE F)
    ELSE IF upper = 15 /\ lower > 0 THEN
        (IF tp = 0 THEN SetVolume(F, SaturatingSub(F.c.volume, lower)) ELSE F)
    ELSE IF lower = 0 THEN
        (IF tp > 0 \/ module.fast_volume_slides
         THEN SetVolume(F, F.c.volume + upper) ELSE F)
    ELSE
        (IF tp > 0 \/ module.fast_volume_slides
         THEN SetVolume(F, SaturatingSub(F.c.volume, lower)) ELSE F)

vol_slide(F, value, tp) ==
    ClampVolume(VolSlideStep(RouteMemory(F, value, "volume_memory"),
                             HiNibble(RoutedValue(F, value, "volume_memory")),
                             LoNibble(RoutedValue(F, value, "volume_memory")),
                             tp))

----------------------------------------------------------------------------
(* Channel::retrigger *)

\* self.volume = (self.volume * m) / d
ScaleVolume(F, m, d) ==
    IF U8Fits(F.c.volume * m)
    THEN SetVolume(F, WrapU8(F.c.volume * m) \div d)
    ELSE Panic(F, "panic: arithmetic overflow")

\* the volume change the high nibble selects, lines 298-319
RetrigVolume(F, op) ==
    IF ~Ok(F) THEN F
    ELSE CASE op = 1 -> SetVolume(F, F.c.volume - 1)
           [] op = 2 -> SetVolume(F, F.c.volume - 2)
           [] op = 3 -> SetVolume(F, F.c.volume - 4)
           [] op = 4 -> SetVolume(F, F.c.volume - 8)
           [] op = 5 -> SetVolume(F, F.c.volume - 16)
           [] op = 6 -> ScaleVolume(F, 3, 2)
           [] op = 7 -> SetVolume(F, F.c.volume \div 2)
           [] op = 9 -> SetVolume(F, F.c.volume + 1)
           [] op = 10 -> SetVolume(F, F.c.volume + 2)
           [] op = 11 -> SetVolume(F, F.c.volume + 4)
           [] op = 12 -> SetVolume(F, F.c.volume + 8)
           [] op = 13 -> SetVolume(F, F.c.volume + 16)
           [] op = 14 -> ScaleVolume(F, 2, 3)
           [] op = 15 -> SetVolume(F, F.c.volume * 2)
           [] OTHER -> F

\* lines 321-324 with the test one tick early
RetrigRestartEarly(F, ticks) ==
    IF Ok(F) /\ F.c.retrigger_ticks + 1 >= ticks
    THEN [F EXCEPT !.c.position = 0, !.c.retrigger_ticks = 0]
    ELSE F

\* lines 321-324
RetrigRestart(F, ticks) ==
    IF Ok(F) /\ F.c.retrigger_ticks >= ticks
    THEN [F EXCEPT !.c.position = 0, !.c.retrigger_ticks = 0]
    ELSE F

\* line 326
RetrigCount(F) ==
    IF ~Ok(F) THEN F
    ELSE IF U8Fits(F.c.retrigger_ticks + 1)
    THEN [F EXCEPT !.c.retrigger_ticks = WrapU8(@ + 1)]
    ELSE Panic(F, "panic: arithmetic overflow")

retrigger(F, value) ==
    ClampVolume(RetrigCount(RetrigRestart(
        RetrigVolume(RouteMemory(F, value, "retrigger_memory"),
                     HiNibble(RoutedValue(F, value, "retrigger_memory"))),
        LoNibble(RoutedValue(F, value, "retrigger_memory")))))

----------------------------------------------------------------------------
(* Channel::arpeggio *)

\* the frequency of selector 1 or 2, lines 342-347
ArpeggioNote(F, offset) ==
    IF F.c.current_note + offset >= PITCH_TABLE_LEN THEN Panic(F, "panic: PITCH_TABLE index")
    ELSE IF ~SampleInRange(F.c.current_sample_index)
    THEN Panic(F, "panic: samples index")
    ELSE SetFreq(F, PitchFreq(F.c.current_note + offset,
                              SampleAt(F.c.current_sample_index).base_frequency))

\* lines 340-349
ArpeggioSelect(F, value) ==
    CASE F.c.arpeggio_selector = 0 -> [F EXCEPT !.c.freq = F.c.base_freq]
      [] F.c.arpeggio_selector = 1 -> ArpeggioNote(F, HiNibble(value))
      [] F.c.arpeggio_selector = 2 -> ArpeggioNote(F, LoNibble(value))
      [] OTHER -> F

\* lines 351-352 with a selector that stays
ArpeggioStuck(F) ==
    IF ~Ok(F) THEN F
    ELSE [F EXCEPT !.c.arpeggio_state = TRUE]

\* lines 351-352
ArpeggioNext(F) ==
    IF ~Ok(F) THEN F
    ELSE [F EXCEPT !.c.arpeggio_selector = (@ + 1) % 3,
                   !.c.arpeggio_state = TRUE]

arpeggio(F, value) ==
    IF ~Ok(F) THEN F
    ELSE ArpeggioNext(
            ArpeggioSelect(
                [F EXCEPT !.c.arpeggio_memory = IF value # 0 THEN value ELSE @],
                IF value # 0 THEN value ELSE F.c.arpeggio_memory))

----------------------------------------------------------------------------
(* Channel::process *)

\* U32F32::from(self.freq) / U32F32::from(samplerate)
Step(c) == c.freq \div samplerate

\* step 2 of the routine, lines 363-371: move along the sample
Advance(F, sample) ==
    IF F.c.backwards THEN
        IF ToInt(F.c.position) <= sample.loop_start
        THEN [F EXCEPT !.c.backwards = FALSE]
        ELSE SetPosition(F, F.c.position - Step(F.c))
    ELSE SetPosition(F, F.c.position + Step(F.c))

\* lines 373-385: what is done past the loop's end
LoopBack(F, sample) ==
    IF ~Ok(F) THEN F
    ELSE IF sample.loop_end > 0 /\ ToInt(F.c.position) > sample.loop_end - 1 THEN
        CASE sample.loop_type = "Forward" ->
                IF sample.loop_end >= sample.loop_start
                THEN SetPosition(F, F.c.position
                                    - FromInt(sample.loop_end - sample.loop_start))
                ELSE IF overflow_checks THEN Panic(F, "panic: arithmetic overflow")
                \* both subtractions wrap, and the wraps cancel
                ELSE [F EXCEPT !.c.position =
                        (@ + FromInt(sample.loop_start - sample.loop_end)) % FixModulus]
          [] sample.loop_type = "PingPong" ->
                SetPosition([F EXCEPT !.c.backwards = TRUE],
                            F.c.position - Step(F.c))
          [] OTHER -> F
    ELSE F

\* lines 387-393: a sample without a loop stops at its last frame
StopAtEnd(F, sample) ==
    IF Ok(F) /\ ToInt(F.c.position) >= Len(sample.audio) - 1
             /\ sample.loop_type = "None"
    THEN [F EXCEPT !.c.playing = FALSE, !.c.backwards = FALSE]
    ELSE F

\* to_num::<i16>() of a value: in range it is returned; out of range the build decides
WrapI16(v) == ((v + 32768) % 65536) - 32768

\* .to_num::<i16>() of the scaled frame, line 405
ToI16(F, v) ==
    IF v >= I16Min /\ v <= I16Max THEN [F EXCEPT !.out = v]
    ELSE IF overflow_checks THEN Panic(F, "panic: arithmetic overflow")
    ELSE [F EXCEPT !.out = WrapI16(v)]

\* lines 395-407: the frame at floor(position), scaled by both volumes
Fetch(F, sample) ==
    IF ~Ok(F) \/ ~F.c.playing THEN F
    ELSE IF ToInt(F.c.position) >= Len(sample.audio) THEN Panic(F, "panic: audio index")
    ELSE ToI16(F, (sample.audio[ToInt(F.c.position) + 1]
                   * F.c.volume * sample.global_volume) \div 4096)

\* lines 359-407, for a channel whose sample exists
PlaySample(F, sample) ==
    IF ~F.c.playing \/ Len(sample.audio) = 0 THEN F
    ELSE IF samplerate = 0 THEN Panic(F, "panic: division by zero")
    ELSE Fetch(StopAtEnd(LoopBack(Advance(F, sample), sample), sample), sample)

\* Channel::process: the frame after the call, with the value returned in .out
ChannelProcess(c) ==
    IF ~SampleInRange(c.current_sample_index)
    THEN [c |-> c, halt |-> NoHalt, out |-> 0]
    ELSE PlaySample([c |-> c, halt |-> NoHalt, out |-> 0],
                    SampleAt(c.current_sample_index))

----------------------------------------------------------------------------
(* The Player.  Its methods work on a record P of the player's fields,     *)
(* with the panic or exit run into (.halt) and the steps run (.ran).       *)

\* a channel the mixer did not call in the last process()
Silent == [called |-> FALSE, sample |-> 0, position |-> 0, playing |-> FALSE,
           out |-> 0]

Self == [global_volume |-> global_volume, current_position |-> current_position,
         current_pattern |-> current_pattern, current_row |-> current_row,
         current_tempo |-> current_tempo, current_speed |-> current_speed,
         tick_counter |-> tick_counter, ticks_passed |-> ticks_passed,
         channels |-> channels, halt |-> halt, ran |-> <<>>, out |-> 0,
         voices |-> [i \in 1..Len(channels) |-> Silent]]

\* what is recorded of a Channel::process call: the sample it read, the
\* position it left, whether the voice still plays, the value it returned
Voice(F, c) == [called |-> TRUE, sample |-> c.current_sample_index,
                position |-> F.c.position, playing |-> F.c.playing,
                out |-> F.out]

Halt(P, why) == [P EXCEPT !.halt = why]
Running(P) == P.halt = NoHalt
\* the channel a method returned, put back, with the method's panic if any
WithChannel(P, i, F) == [P EXCEPT !.channels[i] = F.c, !.halt = F.halt]

max_global_volume(mode) ==
    CASE mode = "S3M" -> 64
      [] mode = "IT" -> 128
      [] mode = "ITSample" -> 128
      [] OTHER -> 64

\* u8::saturating_add
SaturatingAddU8(a, n) == Min(a + n, 255)

----------------------------------------------------------------------------
(* Player::global_vol_slide *)

\* lines 514-535: the volume before the clamp
GlobalVolSlid(gv, upper, lower, tp) ==
    IF lower = 15 /\ upper > 0 THEN
        (IF tp = 0 THEN SaturatingAddU8(gv, upper) ELSE gv)
    ELSE IF upper = 15 /\ lower > 0 THEN
        (IF tp = 0 THEN SaturatingSub(gv, lower) ELSE gv)
    ELSE IF lower = 0 THEN
        (IF tp > 0 \/ module.fast_volume_slides
         THEN SaturatingAddU8(gv, upper) ELSE gv)
    ELSE
        (IF tp > 0 \/ module.fast_volume_slides
         THEN SaturatingSub(gv, lower) ELSE gv)

\* global_vol_slide without lines 537-539
global_vol_slide_unclamped(P, value) ==
    [P EXCEPT !.global_volume =
        GlobalVolSlid(@, HiNibble(value), LoNibble(value), P.ticks_passed)]

global_vol_slide(P, value) ==
    [P EXCEPT !.global_volume =
        Min(GlobalVolSlid(@, HiNibble(value), LoNibble(value), P.ticks_passed),
            max_global_volume(module.mode))]

----------------------------------------------------------------------------
(* Player::process_tick *)

\* the row the cursor is on, or the panic of indexing it
RowPanic(P) ==
    IF P.current_pattern >= Len(module.patterns) THEN "panic: patterns index"
    ELSE IF P.current_row >= Len(module.patterns[P.current_pattern + 1])
    THEN "panic: row index"
    ELSE NoHalt
CurrentRow(P) == module.patterns[P.current_pattern + 1][P.current_row + 1]

\* what a column's tick hands back: the player, and whether the tick returned
Go(Q) == [p |-> Q, stop |-> FALSE]
Return(Q) == [p |-> Q, stop |-> TRUE]

\* lines 564-565, after the vol_slide of VolSlideTonePorta
ThenTonePorta(Q, i, col) ==
    IF ~Running(Q) THEN Go(Q)
    ELSE IF Q.ticks_passed <= 0 THEN Return(Q)
    ELSE Go(WithChannel(Q, i,
                tone_portamento(Frame(Q.channels[i]), col.note,
                                module.linear_freq_slides, 0)))

\* one column's effect on one tick, lines 549-593
TickColumn(P, i, col) ==
    CASE col.effect.kind = "PortaUp" ->
            Go(WithChannel(P, i,
                porta_up(Frame(P.channels[i]), module.linear_freq_slides,
                         P.ticks_passed, col.effect.value)))
      [] col.effect.kind = "PortaDown" ->
            Go(WithChannel(P, i,
                porta_down(Frame(P.channels[i]), module.linear_freq_slides,
                           P.ticks_passed, col.effect.value)))
      [] col.effect.kind = "TonePorta" ->
            IF P.ticks_passed <= 0 THEN Return(P)
            ELSE Go(WithChannel(P, i,
                    tone_portamento(Frame(P.channels[i]), col.note,
                                    module.linear_freq_slides, col.effect.value)))
      [] col.effect.kind = "VolSlideTonePorta" ->
            ThenTonePorta(
                WithChannel(P, i, vol_slide(Frame(P.channels[i]),
                                            col.effect.value, P.ticks_passed)),
                i, col)
      [] col.effect.kind \in {"VolSlideVibrato", "VolSlide"} ->
            Go(WithChannel(P, i, vol_slide(Frame(P.channels[i]),
                                           col.effect.value, P.ticks_passed)))
      [] col.effect.kind = "Retrig" ->
            Go(WithChannel(P, i, retrigger(Frame(P.channels[i]), col.effect.value)))
      [] col.effect.kind = "Arpeggio" ->
            Go(WithChannel(P, i, arpeggio(Frame(P.channels[i]), col.effect.value)))
      [] col.effect.kind \in {"Vibrato", "None"} ->
            IF col.effect.value # 0 /\ ModeIsS3M
            THEN Go([P EXCEPT !.channels[i].s3m_effect_memory = col.effect.value])
            ELSE Go(P)
      [] col.effect.kind = "GlobalVolSlide" ->
            IF col.effect.value # 0
            THEN Go(global_vol_slide(
                    [P EXCEPT !.channels[i].global_volume_memory = col.effect.value],
                    col.effect.value))
            ELSE Go(global_vol_slide(P, P.channels[i].global_volume_memory))
      [] OTHER -> Go(P)

\* the rest of the loop of line 548 after column i
RECURSIVE TickColumns(_, _, _)
\* the same without the returns of lines 559 and 564
TickRestThrough(r, row, i) == TickColumns(r.p, row, i + 1)

TickRest(r, row, i) == IF r.stop THEN r.p ELSE TickColumns(r.p, row, i + 1)

TickColumns(P, row, i) ==
    IF ~Running(P) \/ i > Len(row) THEN P
    ELSE IF i > Len(P.channels) THEN Halt(P, "panic: channels index")
    ELSE TickRest(TickColumn(P, i, row[i]), row, i)

\* lines 546-594, without the return of lines 543-545
TickRowUnguarded(P) ==
    IF RowPanic(P) # NoHalt THEN Halt(P, RowPanic(P))
    ELSE TickColumns(P, CurrentRow(P), 1)

\* lines 543-594
TickRow(P) ==
    IF P.current_row = ROW_NOT_STARTED THEN P
    ELSE IF RowPanic(P) # NoHalt THEN Halt(P, RowPanic(P))
    ELSE TickColumns(P, CurrentRow(P), 1)

process_tick(P) ==
    IF ~Running(P) THEN P
    ELSE TickRow([P EXCEPT !.ran = Append(@, "process_tick")])

----------------------------------------------------------------------------
(* Player::advance_row *)

\* self.current_pattern = self.module.playlist[self.current_position as usize]
LoadPattern(P) ==
    IF ~Running(P) THEN P
    ELSE IF P.current_position >= Len(module.playlist)
    THEN Halt(P, "panic: playlist index")
    ELSE [P EXCEPT !.current_pattern = module.playlist[P.current_position + 1]]

\* self.current_position += 1, then the reload
NextPosition(P) ==
    IF ~Running(P) THEN P
    ELSE IF U8Fits(P.current_position + 1)
    THEN LoadPattern([P EXCEPT !.current_position = WrapU8(@ + 1)])
    ELSE Halt(P, "panic: arithmetic overflow")

\* the loops of lines 675-682 and 688-695; fuel bounds a playlist of markers only
RECURSIVE SkipMarkers(_, _)
SkipMarkers(P, fuel) ==
    IF ~Running(P) \/ P.current_pattern # SKIP_MARKER \/ fuel = 0 THEN P
    ELSE SkipMarkers(NextPosition(P), fuel - 1)

\* lines 642-646 without the decimal reading of MOD and S3M
PatBreakRowRaw(row) == row

\* the row a PatBreak(row) leads to, lines 642-646
PatBreakRow(row) ==
    IF module.mode \in {"MOD", "S3M"}
    THEN LoNibble(row) + (row \div 16) * 10
    ELSE row

NoJump == [pos_jump_enabled |-> FALSE, pos_jump_to |-> 0,
           pat_break_enabled |-> FALSE, pat_break_to |-> 0]

\* one column of the loop of lines 634-650
ScanColumn(acc, e) ==
    CASE e.kind = "PosJump" ->
            [acc EXCEPT !.pos_jump_enabled = TRUE, !.pos_jump_to = e.value]
      [] e.kind = "PatBreak" ->
            [acc EXCEPT !.pat_break_enabled = TRUE,
                        !.pat_break_to = PatBreakRow(e.value)]
      [] OTHER -> acc

\* the last PosJump and the last PatBreak of a row, lines 628-650
RECURSIVE ScanRow(_, _, _)
ScanRow(row, i, acc) ==
    IF i > Len(row) THEN acc
    ELSE ScanRow(row, i + 1, ScanColumn(acc, row[i].effect))

\* lines 663-667 without the wrap of lines 668-671
WrapAtEndNever(Q) == Q

\* lines 668-671
WrapAtEnd(Q) ==
    IF Running(Q) /\ Q.current_pattern = END_MARKER
    THEN LoadPattern([Q EXCEPT !.current_position = 0])
    ELSE Q

\* lines 663-672
ApplyPatBreak(P, scan) ==
    IF Running(P) /\ scan.pat_break_enabled
    THEN WrapAtEnd(NextPosition([P EXCEPT !.current_row = scan.pat_break_to]))
    ELSE P

\* lines 657-661
ApplyPosJump(P, scan) ==
    IF scan.pos_jump_enabled
    THEN LoadPattern([P EXCEPT !.current_row = 0,
                               !.current_position = scan.pos_jump_to])
    ELSE P

\* lines 652-673
MoveCursor(P, scan) ==
    IF P.current_row = Len(module.patterns[P.current_pattern + 1])
    THEN [P EXCEPT !.ticks_passed = 0, !.current_row = 0]
    ELSE ApplyPatBreak(
            ApplyPosJump([P EXCEPT !.ticks_passed = 0, !.current_row = @ + 1],
                         scan),
            scan)

\* lines 697-700 with a return to the first position in place of the exit
EndOfSongRestarts(Q) ==
    IF Running(Q) /\ Q.current_pattern = END_MARKER
    THEN LoadPattern([Q EXCEPT !.current_position = 0]) ELSE Q

\* lines 697-700
EndOfSong(Q) ==
    IF Running(Q) /\ Q.current_pattern = END_MARKER
    THEN Halt(Q, ExitEndOfSong) ELSE Q

\* lines 683-701
RowOverflow(P) ==
    IF ~Running(P) THEN P
    ELSE IF P.current_pattern >= Len(module.patterns)
    THEN Halt(P, "panic: patterns index")
    ELSE IF P.current_row = Len(module.patterns[P.current_pattern + 1])
    THEN EndOfSong(SkipMarkers(NextPosition([P EXCEPT !.current_row = 0]),
                               Len(module.playlist) + 1))
    ELSE P

\* lines 621-701
AdvanceFrom(P) ==
    IF P.current_row = ROW_NOT_STARTED
    THEN [P EXCEPT !.current_row = 0, !.ticks_passed = 0]
    ELSE IF RowPanic(P) # NoHalt THEN Halt(P, RowPanic(P))
    ELSE RowOverflow(SkipMarkers(MoveCursor(P, ScanRow(CurrentRow(P), 1, NoJump)),
                                 Len(module.playlist) + 1))

advance_row(P) ==
    IF ~Running(P) THEN P
    ELSE AdvanceFrom([P EXCEPT !.ran = Append(@, "advance_row")])

----------------------------------------------------------------------------
(* Player::play_row *)

\* lines 777-786: the channel as a new note starts it
StartedChannel(c, e) ==
    IF e.kind = "SampleOffset"
    THEN [c EXCEPT !.playing = TRUE,
                   !.offset_memory = IF e.value # 0 THEN e.value ELSE @,
                   !.position = FromInt((IF e.value # 0 THEN e.value
                                         ELSE c.offset_memory) * 256)]
    ELSE [c EXCEPT !.playing = TRUE, !.position = 0]

\* lines 787-795
StartNote(P, i, key, c) ==
    IF ~SampleInRange(c.current_sample_index)
    THEN [P EXCEPT !.channels[i] = [c EXCEPT !.playing = FALSE]]
    ELSE IF key >= PITCH_TABLE_LEN
    THEN Halt([P EXCEPT !.channels[i] = [c EXCEPT !.current_note = key]],
              "panic: PITCH_TABLE index")
    ELSE [P EXCEPT !.channels[i] =
            [c EXCEPT !.current_note = key,
                      !.base_freq = PitchFreq(key,
                            SampleAt(c.current_sample_index).base_frequency),
                      !.freq = PitchFreq(key,
                            SampleAt(c.current_sample_index).base_frequency)]]

\* lines 771-801 without the test of the volume column of line 775
PlayNoteByEffect(P, i, col) ==
    CASE col.note.kind = "On" ->
            IF col.effect.kind # "TonePorta"
            THEN StartNote(P, i, col.note.key,
                           StartedChannel(P.channels[i], col.effect))
            ELSE P
      [] col.note.kind \in {"Cut", "Off"} ->
            [P EXCEPT !.channels[i].playing = FALSE]
      [] OTHER -> P

\* lines 771-801: the note of a column
PlayNote(P, i, col) ==
    CASE col.note.kind = "On" ->
            IF col.effect.kind # "TonePorta" /\ col.vol.kind # "TonePorta"
            THEN StartNote(P, i, col.note.key,
                           StartedChannel(P.channels[i], col.effect))
            ELSE P
      [] col.note.kind \in {"Cut", "Off"} ->
            [P EXCEPT !.channels[i].playing = FALSE]
      [] OTHER -> P

\* lines 730-743
PlayVolColumn(P, i, col) ==
    IF col.vol.kind = "Volume"
    THEN [P EXCEPT !.channels[i].volume = col.vol.value] ELSE P

\* lines 745-751
PlayEffect(P, i, e) ==
    CASE e.kind = "SetSpeed" -> [P EXCEPT !.current_speed = e.value]
      [] e.kind = "SetTempo" -> [P EXCEPT !.current_tempo = e.value]
      [] e.kind = "Arpeggio" -> [P EXCEPT !.channels[i].arpeggio_selector = 0]
      [] e.kind = "SetGlobalVol" ->
            IF e.value <= max_global_volume(module.mode)
            THEN [P EXCEPT !.global_volume = e.value] ELSE P
      [] OTHER -> P

\* lines 753-760 without the exception of lines 754-755
EndArpeggioRestoring(P, i, e) ==
    IF P.channels[i].arpeggio_state
    THEN [P EXCEPT !.channels[i].freq = P.channels[i].base_freq,
                   !.channels[i].arpeggio_state = FALSE]
    ELSE P

\* lines 753-760
EndArpeggio(P, i, e) ==
    IF P.channels[i].arpeggio_state THEN
        IF ~ModeIsS3M \/ e.kind \notin {"PortaUp", "PortaDown"}
        THEN [P EXCEPT !.channels[i].freq = P.channels[i].base_freq,
                       !.channels[i].arpeggio_state = FALSE]
        ELSE [P EXCEPT !.channels[i].arpeggio_state = FALSE]
    ELSE P

\* lines 762-769 without the test of the volume column of line 765
PlayInstrumentOverriding(P, i, col) ==
    IF col.instrument = 0 THEN P
    ELSE IF SampleInRange(col.instrument - 1)
    THEN [P EXCEPT !.channels[i].current_sample_index = col.instrument - 1,
                   !.channels[i].volume = SampleAt(col.instrument - 1).default_volume]
    ELSE [P EXCEPT !.channels[i].current_sample_index = col.instrument - 1]

\* lines 762-769
PlayInstrument(P, i, col) ==
    IF col.instrument = 0 THEN P
    ELSE IF col.vol.kind = "None" /\ SampleInRange(col.instrument - 1)
    THEN [P EXCEPT !.channels[i].current_sample_index = col.instrument - 1,
                   !.channels[i].volume = SampleAt(col.instrument - 1).default_volume]
    ELSE [P EXCEPT !.channels[i].current_sample_index = col.instrument - 1]

\* lines 723-801: one column of the row
PlayColumn(P, i, col) ==
    PlayNote(
        PlayInstrument(
            EndArpeggio(PlayEffect(PlayVolColumn(P, i, col), i, col.effect),
                        i, col.effect),
            i, col),
        i, col)

RECURSIVE PlayColumns(_, _, _)
PlayColumns(P, row, i) ==
    IF ~Running(P) \/ i > Len(row) THEN P
    ELSE IF i > Len(P.channels) THEN Halt(P, "panic: channels index")
    ELSE PlayColumns(PlayColumn(P, i, row[i]), row, i + 1)

\* lines 705-802
PlayRow(P) ==
    IF RowPanic(P) # NoHalt THEN Halt(P, RowPanic(P))
    ELSE PlayColumns(P, CurrentRow(P), 1)

play_row(P) ==
    IF ~Running(P) THEN P
    ELSE PlayRow([P EXCEPT !.ran = Append(@, "play_row")])

----------------------------------------------------------------------------
(* Player::process *)

\* x * 2 in i32, wrapped
WrapDouble(x) ==
    IF x > 1073741823 THEN ((x - 1073741824) - 1073741824) * 2
    ELSE IF x < -1073741824 THEN ((x + 1073741824) + 1073741824) * 2
    ELSE x * 2

DoubleFits(x) == x <= 1073741823 /\ x >= -1073741824

\* i32::wrapping_add
WrappingAddI32(a, b) ==
    IF b > 0 /\ a > I32Max - b THEN ((a - I32Max) - 1) + ((b - I32Max) - 1)
    ELSE IF b < 0 /\ a < I32Min - b THEN ((a + I32Max) + 1) + ((b + I32Max) + 1)
    ELSE a + b

\* i32::saturating_add
SaturatingAddI32(a, b) ==
    IF b > 0 /\ a > I32Max - b THEN I32Max
    ELSE IF b < 0 /\ a < I32Min - b THEN I32Min
    ELSE a + b

\* lines 489-491: the second doubling, of the modes that are not IT
MixHeadroom(g) ==
    IF ModeIsIT THEN g
    ELSE [tmp |-> WrapDouble(g.tmp),
          ok |-> g.ok /\ (DoubleFits(g.tmp) \/ ~overflow_checks)]

\* lines 484-487: c.process() * mixing_volume * global_volume * 2; .ok is
\* FALSE when the product overflows in a build that checks
MixProduct(base) ==
    [tmp |-> WrapDouble(base), ok |-> DoubleFits(base) \/ ~overflow_checks]

\* lines 484-491: a channel's share of the mix
MixGain(channel_out, gv) ==
    MixHeadroom(MixProduct(channel_out * module.mixing_volume * gv))

\* line 493
MixAdd(Q, g) ==
    IF ~Running(Q) THEN Q
    ELSE IF ~g.ok THEN Halt(Q, "panic: arithmetic overflow")
    ELSE [Q EXCEPT !.out = SaturatingAddI32(@, g.tmp)]

\* lines 484-493 for channel i, F being what its process() left
MixVoice(P, i, F) ==
    MixAdd([WithChannel(P, i, F) EXCEPT !.voices[i] = Voice(F, P.channels[i])],
           MixGain(F.out, P.global_volume))

\* lines 482-495: the loop over the channels
RECURSIVE MixChannels(_, _)
MixChannels(P, i) ==
    IF ~Running(P) \/ i > Len(P.channels) THEN P
    ELSE IF ~P.channels[i].playing THEN MixChannels(P, i + 1)
    ELSE MixChannels(MixVoice(P, i, ChannelProcess(P.channels[i])), i + 1)

\* ((self.samplerate as f32 * 2.5) / self.current_tempo as f32) as u32;
\* a tempo of 0 divides to infinity (to NaN for a samplerate of 0), and the
\* cast saturates: more than any tick_counter followed here
SamplesPerTick(tempo) ==
    IF tempo = 0 THEN (IF samplerate = 0 THEN 0 ELSE I32Max)
    ELSE (samplerate * 5) \div (2 * tempo)

\* lines 501-505 with play_row ahead of advance_row
TickDueSwapped(P) ==
    IF P.ticks_passed >= P.current_speed
    THEN process_tick(advance_row(play_row(P)))
    ELSE process_tick(P)

\* lines 501-505
TickDue(P) ==
    IF P.ticks_passed >= P.current_speed
    THEN process_tick(play_row(advance_row(P)))
    ELSE process_tick(P)

\* lines 497-508 without the reset of line 500
TickKeepsCounter(P) ==
    IF ~Running(P) THEN P
    ELSE IF P.tick_counter >= SamplesPerTick(P.current_tempo) THEN
        IF ~U8Fits(P.ticks_passed + 1) THEN Halt(P, "panic: arithmetic overflow")
        ELSE TickDue([P EXCEPT !.ticks_passed = WrapU8(@ + 1)])
    ELSE [P EXCEPT !.tick_counter = @ + 1]

\* lines 497-508
Tick(P) ==
    IF ~Running(P) THEN P
    ELSE IF P.tick_counter >= SamplesPerTick(P.current_tempo) THEN
        IF ~U8Fits(P.ticks_passed + 1) THEN Halt(P, "panic: arithmetic overflow")
        ELSE TickDue([P EXCEPT !.ticks_passed = WrapU8(@ + 1),
                               !.tick_counter = 0])
    ELSE [P EXCEPT !.tick_counter = @ + 1]

PlayerProcess(P) == Tick(MixChannels(P, 1))

\* one process() call: the state after it, the value it returned unless it
\* never returned, and the distance between row entries in process() calls
Process ==
    /\ halt = NoHalt
    /\ tick_counter <= MaxTickCounter
    /\ \E P \in {PlayerProcess(Self)} :
        /\ global_volume' = P.global_volume
        /\ current_position' = P.current_position
        /\ current_pattern' = P.current_pattern
        /\ current_row' = P.current_row
        /\ current_tempo' = P.current_tempo
        /\ current_speed' = P.current_speed
        /\ tick_counter' = P.tick_counter
        /\ ticks_passed' = P.ticks_passed
        /\ channels' = P.channels
        /\ halt' = P.halt
        /\ out' = IF Running(P) THEN P.out ELSE out
        /\ ran' = P.ran
        /\ voices' = P.voices
        /\ \E row_entered \in {\E k \in 1..Len(P.ran) : P.ran[k] = "play_row"} :
            /\ since_row' = IF row_entered THEN 0
                            ELSE IF since_row < 0 THEN since_row
                            ELSE since_row + 1
            /\ row_gap' = IF row_entered /\ since_row >= 0
                          THEN since_row + 1 ELSE row_gap
    /\ UNCHANGED <<module, samplerate, overflow_checks>>

Next == Process

----------------------------------------------------------------------------
(* Player::from_module *)

NewChannel ==
    [current_sample_index |-> 0, playing |-> FALSE,
     freq |-> FromInt(DEFAULT_FREQ), base_freq |-> FromInt(DEFAULT_FREQ),
     current_note |-> 0, position |-> 0, backwards |-> FALSE,
     porta_memory |-> 0, last_note |-> 0, offset_memory |-> 0,
     volume_memory |-> 0, global_volume_memory |-> 0, retrigger_memory |-> 0,
     retrigger_ticks |-> 0, arpeggio_memory |-> 0, arpeggio_selector |-> 0,
     arpeggio_state |-> FALSE, s3m_effect_memory |-> 0,
     volume |-> DEFAULT_VOLUME]

from_module(m, sr, checks) ==
    /\ Len(m.playlist) > 0
    /\ module = m
    /\ samplerate = sr
    /\ overflow_checks = checks
    /\ global_volume = m.initial_global_volume
    /\ current_position = 0
    /\ current_pattern = m.playlist[1]
    /\ current_row = ROW_NOT_STARTED
    /\ current_tempo = m.initial_tempo
    /\ current_speed = m.initial_speed
    /\ tick_counter = 0
    /\ ticks_passed = 0
    /\ channels = [i \in 1..NumChannels |-> NewChannel]
    /\ halt = NoHalt
    /\ out = 0
    /\ ran = <<>>
    /\ voices = [i \in 1..NumChannels |-> Silent]
    /\ since_row = -1
    /\ row_gap = 0

----------------------------------------------------------------------------
(* Module data: the input the player is built from *)

NoteNone == [kind |-> "None", key |-> 0]
NoteOn(key) == [kind |-> "On", key |-> key]
VolNone == [kind |-> "None", value |-> 0]
Volume(v) == [kind |-> "Volume", value |-> v]
VolTonePorta(v) == [kind |-> "TonePorta", value |-> v]
Fx(kind, value) == [kind |-> kind, value |-> value]
NoEffect == Fx("None", 0)
Column(note, instrument, vol, effect) ==
    [note |-> note, instrument |-> instrument, vol |-> vol, effect |-> effect]
Empty == Column(NoteNone, 0, VolNone, NoEffect)
\* a column of an effect alone, and a column of a note of an instrument
Only(e) == Column(NoteNone, 0, VolNone, e)
Note(instrument, e) == Column(NoteOn(60), instrument, VolNone, e)

\* a row: `first` in column 0 and `other` in every other column
Row(first, other) == [i \in 1..NumChannels |-> IF i = 1 THEN first ELSE other]

Sample(audio, loop_type, loop_start, loop_end, base_frequency, default_volume) ==
    [audio |-> audio, loop_type |-> loop_type, loop_start |-> loop_start,
     loop_end |-> loop_end, base_frequency |-> base_frequency,
     default_volume |-> default_volume, global_volume |-> 64]

Modes == {"MOD", "S3M", "IT", "ITSample"}

\* a module with the scalars most runs share
BaseModule(mode, samples, patterns, playlist, speed) ==
    [mode |-> mode, samples |-> samples, patterns |-> patterns,
     playlist |-> playlist, initial_tempo |-> 125, initial_speed |-> speed,
     initial_global_volume |-> 64, mixing_volume |-> 48,
     linear_freq_slides |-> TRUE, fast_volume_slides |-> FALSE]

----------------------------------------------------------------------------
(* What the last process() call did, as the properties below read it *)

\* the player as the mixer loop of the next process() call leaves it
Mixed == MixChannels(Self, 1)

\* the player as a tick that is due starts on it, lines 499-500
Due == [Mixed EXCEPT !.ticks_passed = WrapU8(@ + 1), !.tick_counter = 0]

\* the player as the process_tick of the next process() call finds it, when
\* the call crosses a row boundary: after advance_row and play_row
RowEntered == play_row(advance_row(Due))

\* the player after the effects of columns 1..k of a row on one tick, one
\* column after the other
RECURSIVE TickedThrough(_, _, _)
TickedThrough(P, row, k) ==
    IF k = 0 THEN P
    ELSE TickColumn(TickedThrough(P, row, k - 1), k, row[k]).p

\* the player as the process_tick of a step's process() call finds it
TickStart == IF \E k \in 1..Len(ran') : ran'[k] = "play_row" THEN RowEntered ELSE Due

\* did the last process() call enter a row
PlayRowRan == \E k \in 1..Len(ran) : ran[k] = "play_row"

\* did the last process() call run process_tick
TickRan == \E k \in 1..Len(ran) : ran[k] = "process_tick"

\* the row whose effects the last process() call dispatched, if it
\* dispatched any and returned
TickedRow ==
    IF halt = NoHalt /\ TickRan /\ current_row # ROW_NOT_STARTED
    THEN CurrentRow(Self) ELSE <<>>

\* is the parameter of a volume slide a fine slide: xF or Fx, x > 0
FineSlide(value) ==
    \/ LoNibble(value) = 15 /\ HiNibble(value) > 0
    \/ HiNibble(value) = 15 /\ LoNibble(value) > 0

\* a volume one slide step further, kept within 0..ceiling
SlidBy(volume, value, ceiling) ==
    IF (LoNibble(value) = 15 /\ HiNibble(value) > 0) \/ LoNibble(value) = 0
    THEN Min(volume + HiNibble(value), ceiling)
    ELSE Max(volume - LoNibble(value), 0)

\* the volume of channel i its tick starts from, in the process() call of
\* a step: what the row's column set at row entry if the call entered the
\* row, the volume before the call otherwise
VolumeAtTick(i, col) ==
    IF ~PlayRowRan' THEN channels[i].volume
    ELSE IF col.vol.kind = "Volume" THEN col.vol.value
    ELSE IF col.instrument # 0 /\ SampleInRange(col.instrument - 1)
    THEN SampleAt(col.instrument - 1).default_volume
    ELSE channels[i].volume

\* does the dispatch of a tick reach column i of the row: no column before
\* it returns from process_tick on tick 0
Dispatched(row, i) ==
    \A j \in 1..(i - 1) : row[j].effect.kind \notin {"TonePorta", "VolSlideTonePorta"}

----------------------------------------------------------------------------
(* Runs over channel effects: row 0 holds a column with a note, an         *)
(* instrument, a volume and an effect, row 1 the same effect read from     *)
(* memory; every mode, both builds, two ticks per row and one tick per     *)
(* process() call, since floor(8 * 2.5 / 125) = 0.                         *)

EffectColumns ==
    {Column(note, instrument, vol, e) :
        note \in {NoteNone, NoteOn(60)}, instrument \in {0, 1, 2},
        vol \in {VolNone, Volume(65)},
        e \in {NoEffect}
              \cup {Fx(k, v) :
                        k \in {"PortaUp", "PortaDown", "TonePorta",
                               "VolSlideTonePorta", "VolSlideVibrato", "VolSlide",
                               "Retrig", "Arpeggio", "PosJump", "PatBreak"},
                        v \in {1, 16, 31, 241}}}

EffectModules ==
    {BaseModule(mode, <<Sample(<<8, 16, 24, 32>>, "None", 0, 0, 4, dv)>>,
                <<<<Row(col, Empty),
                    Row(Only(Fx(col.effect.kind, 0)), Empty)>>>>,
                <<0, END_MARKER>>, 2) :
        mode \in Modes, dv \in {64, 65}, col \in EffectColumns}

EffectInit ==
    \E m \in EffectModules, checks \in BOOLEAN : from_module(m, 8, checks)

EffectSpec == EffectInit /\ [][Next]_vars

\* C1: in S3M and IT modes, after every process() call that returned, every
\* channel's volume is within 0..64, whatever the volume column, the
\* instrument's default volume and the slide or retrigger parameter
C1_VolumeInRange ==
    (module.mode \in {"S3M", "IT", "ITSample"} /\ halt = NoHalt) =>
        \A i \in 1..Len(channels) :
            channels[i].volume >= 0 /\ channels[i].volume <= 64

\* C8: no process() call aborts on a sample index or a playlist index that
\* is out of range, TonePorta, VolSlideTonePorta, Arpeggio, PosJump and
\* PatBreak included
C8_IndexNeverAborts ==
    halt \notin {"panic: samples index", "panic: playlist index"}

\* C9: in a mode that is not S3M, IT or ITSample, no dispatch of PortaUp,
\* PortaDown, VolSlide, VolSlideTonePorta, VolSlideVibrato or Retrig aborts
C9_OtherModeNoOp ==
    module.mode \notin {"S3M", "IT", "ITSample"} =>
        halt # "panic: not yet implemented"

\* C15: the process() call that enters a row leaves, in every column whose
\* effect is no volume slide or retrigger, the volume of the column's
\* Volume(v) if it has one, also beside an instrument; else the
\* default_volume of the column's instrument if it names a sample that
\* exists; else the volume the channel had
C15_VolumeAtRowEntry ==
    [][PlayRowRan' =>
        \A i \in 1..Len(TickedRow') :
            TickedRow'[i].effect.kind \notin {"VolSlide", "VolSlideTonePorta",
                                             "VolSlideVibrato", "Retrig"} =>
                channels'[i].volume = VolumeAtTick(i, TickedRow'[i])]_vars

\* C15 happens: a row was entered on a column with an instrument of default
\* volume 64 and Volume(65), and the channel's volume is 65
C15_VolumeColumnKept ==
    /\ PlayRowRan
    /\ TickedRow # <<>>
    /\ TickedRow[1].instrument = 1
    /\ TickedRow[1].vol = Volume(65)
    /\ SampleAt(0).default_volume = 64
    /\ channels[1].current_sample_index = 0
    /\ channels[1].volume = 65

\* C20: a process() call that crosses a row boundary runs advance_row, then
\* play_row, then process_tick, and that process_tick sees ticks_passed = 0;
\* a tick that crosses none runs process_tick alone and leaves the cursor;
\* a call that ends early ran a prefix of these; and the value returned is
\* the mix of the channels as they were before any of these ran
C20_MixThenRowThenTick ==
    [][/\ \E n \in 0..3 :
            \/ ran' = SubSeq(<<"advance_row", "play_row", "process_tick">>, 1, n)
            \/ ran' = <<"process_tick">>
       /\ halt' = NoHalt =>
            /\ Len(ran') \in {0, 1, 3}
            /\ PlayRowRan' <=>
                (/\ tick_counter >= SamplesPerTick(current_tempo)
                 /\ ticks_passed + 1 >= current_speed)
            /\ PlayRowRan' => ticks_passed' = 0
            /\ ran' = <<"process_tick">> =>
                /\ ticks_passed' = ticks_passed + 1
                /\ current_row' = current_row
                /\ current_position' = current_position
                /\ current_pattern' = current_pattern
            /\ ran' = <<>> => channels' = MixChannels(Self, 1).channels
            /\ out' = MixChannels(Self, 1).out
            /\ \A i \in 1..Len(channels) : voices'[i].called = channels[i].playing]_vars

\* C20 happens: a call crossed the boundary into row 1 while a note of row 0
\* was sounding: the three steps ran in order, the tick saw ticks_passed = 0,
\* and the call returned the sounding note's mix
C20_RowBoundaryCall ==
    /\ halt = NoHalt
    /\ ran = <<"advance_row", "play_row", "process_tick">>
    /\ ticks_passed = 0
    /\ current_row = 1
    /\ voices[1].called
    /\ out # 0

----------------------------------------------------------------------------
(* Runs over the row cursor: a pattern of three rows and a pattern of one  *)
(* row, PosJump and PatBreak in their first rows, playlists with skip and  *)
(* end markers, one tick per row.                                          *)

CursorModules ==
    {BaseModule(mode, <<>>,
                <<<<Row(Only(e0), Only(e1)), Row(Empty, Empty), Row(Empty, Empty)>>,
                  <<Row(Only(e2), Empty)>>>>,
                playlist, 1) :
        mode \in {"S3M", "IT"},
        playlist \in {<<0, END_MARKER>>, <<0, 1, END_MARKER>>, <<1, 0, END_MARKER>>,
                      <<0, SKIP_MARKER, 1, END_MARKER>>},
        e0 \in {NoEffect, Fx("PatBreak", 0), Fx("PatBreak", 1), Fx("PatBreak", 2),
                Fx("PatBreak", 16), Fx("PosJump", 0), Fx("PosJump", 1),
                Fx("PosJump", 2)},
        e1 \in {NoEffect, Fx("PatBreak", 2), Fx("PosJump", 1)},
        e2 \in {NoEffect, Fx("PatBreak", 0), Fx("PosJump", 0)}}

CursorInit == \E m \in CursorModules : from_module(m, 8, TRUE)

CursorSpec == CursorInit /\ [][Next]_vars

\* C3: whenever play_row ran, the cursor it ran on is a row of its pattern
C3_RowValidAtPlayRow ==
    PlayRowRan =>
        /\ current_pattern < Len(module.patterns)
        /\ current_row < Len(module.patterns[current_pattern + 1])

\* C7: running past the last row onto the end marker leaves the engine in
\* an ended state in which process() can still be called: it does not end
\* the process
C7_EndedStatePersists == halt # ExitEndOfSong

----------------------------------------------------------------------------
(* Runs over one voice: a note on a sample of AudioLen frames, with every  *)
(* loop the sample may carry, steps of 0.5 to 5 frames per process() call  *)
(* (base_frequency over a samplerate of 2) and a start at 0 or at a        *)
(* SampleOffset, followed for four rows of two ticks.                      *)

\* loop_start < loop_end <= len(audio), or loop_end = 0
VoiceLoops ==
    {<<"None", 0, 0>>}
    \cup {x \in {"Forward", "PingPong"} \X (0..AudioLen) \X (0..AudioLen) :
            x[2] < x[3] \/ (x[2] = 0 /\ x[3] = 0)}

VoiceModule(loop, base_frequency, e) ==
    BaseModule("IT",
               <<Sample([i \in 1..AudioLen |-> 8 * i], loop[1], loop[2], loop[3],
                        base_frequency, 64)>>,
               <<<<Row(Note(1, e), Empty),
                   Row(Empty, Empty), Row(Empty, Empty), Row(Empty, Empty)>>>>,
               <<0, END_MARKER>>, 2)

VoiceInit ==
    \E loop \in VoiceLoops, base_frequency \in {1, 2, 3, 6, 10},
       e \in {NoEffect, Fx("SampleOffset", 0), Fx("SampleOffset", 1)},
       checks \in BOOLEAN :
        from_module(VoiceModule(loop, base_frequency, e), 2, checks)

VoiceSpec == VoiceInit /\ [][Next]_vars

\* C4: Channel::process never fetches outside audio, and position never
\* underflows or overflows, for a sample of any loop type with
\* loop_start < loop_end <= len(audio) or loop_end = 0, any step, any start
C4_FetchInBounds ==
    halt \notin {"panic: audio index", "panic: position overflow"}

\* the same runs over whole-sample forward loops: loop_start = 0
LoopInit ==
    \E loop_end \in 1..AudioLen, base_frequency \in {1, 2, 3, 6, 10},
       e \in {NoEffect, Fx("SampleOffset", 0)}, checks \in BOOLEAN :
        from_module(VoiceModule(<<"Forward", 0, loop_end>>, base_frequency, e),
                    2, checks)

LoopSpec == LoopInit /\ [][Next]_vars

\* C5: after a Channel::process() call that leaves a voice playing a sample
\* with a Forward loop and loop_end > 0, loop_start <= floor(position) < loop_end
C5_ForwardLoopPosition ==
    halt = NoHalt =>
        \A i \in 1..Len(voices) :
            (/\ voices[i].called
             /\ voices[i].playing
             /\ SampleInRange(voices[i].sample)
             /\ SampleAt(voices[i].sample).loop_type = "Forward"
             /\ SampleAt(voices[i].sample).loop_end > 0) =>
                /\ SampleAt(voices[i].sample).loop_start <= ToInt(voices[i].position)
                /\ ToInt(voices[i].position) < SampleAt(voices[i].sample).loop_end

----------------------------------------------------------------------------
(* Runs over the tick clock: empty rows at a constant tempo and speed, at  *)
(* a samplerate of 100 and of 48000.                                       *)

TimingModules ==
    {BaseModule("IT", <<>>, <<<<Row(Empty, Empty), Row(Empty, Empty)>>>>,
                <<0, END_MARKER>>, speed) : speed \in {1, 2, 6}}

TimingInit ==
    \E m \in TimingModules, sr \in {100, 48000} : from_module(m, sr, TRUE)

TimingSpec == TimingInit /\ [][Next]_vars

\* C6: consecutive row entries are speed * floor(samplerate * 2.5 / tempo)
\* process() calls apart
C6_RowSpacing ==
    row_gap # 0 => row_gap = current_speed * SamplesPerTick(current_tempo)

----------------------------------------------------------------------------
(* Runs over the mixer: every channel plays a sample of extreme frames at  *)
(* full volume, for every mixing volume and global volume at the ends of   *)
(* their ranges, in every mode and both builds.                            *)

MixLevels == {I16Min, -1, 1, I16Max}

MixModules ==
    {[BaseModule(mode, <<Sample(<<a, a, b, b>>, "None", 0, 0, 1, 64),
                         Sample(<<b, a, b, a>>, "None", 0, 0, 1, 64)>>,
                 <<<<Row(Note(1, NoEffect), Note(2, NoEffect)), Row(Empty, Empty)>>>>,
                 <<0, END_MARKER>>, 2)
        EXCEPT !.mixing_volume = mv, !.initial_global_volume = gv] :
        mode \in Modes, a \in MixLevels, b \in MixLevels, mv \in {0, 1, 255},
        gv \in {0, 1, 64, 128}}

MixInit ==
    \E m \in MixModules, checks \in BOOLEAN :
        /\ m.initial_global_volume <= max_global_volume(m.mode)
        /\ from_module(m, 2, checks)

MixSpec == MixInit /\ [][Next]_vars

\* does channel_out * mixing_volume * global_volume * 2, doubled again
\* outside the IT modes, fit in an i32
ProductFits(base, factor) ==
    base >= (I32Min \div factor) /\ base <= (I32Max \div factor)

\* floor((a + b) / 2), formed without leaving the range of an i32
HalfSum(a, b) == (a \div 2) + (b \div 2) + (((a % 2) + (b % 2)) \div 2)

\* the sum of two i32 values, held at the i32 bounds: the bounds are crossed
\* when half the sum leaves the range of half an i32
HeldSum(a, b) ==
    IF HalfSum(a, b) >= 1073741824 THEN I32Max
    ELSE IF HalfSum(a, b) < -1073741824 THEN I32Min
    ELSE a + b

\* the mix of the channels 1..i that were called, summed in channel order
RECURSIVE HeldMix(_, _, _, _)
HeldMix(vs, gain, factor, i) ==
    IF i = 0 THEN 0
    ELSE IF ~vs[i].called THEN HeldMix(vs, gain, factor, i - 1)
    ELSE HeldSum(HeldMix(vs, gain, factor, i - 1), vs[i].out * gain * factor)

\* C10: with global_volume within its range, no channel's product overflows
\* an i32 and no process() call panics on overflow; the value returned is
\* the sum of the products in channel order, held at the i32 bounds
C10_MixNeverOverflows ==
    [][/\ halt' # "panic: arithmetic overflow"
       /\ \A i \in 1..Len(voices') :
            voices'[i].called =>
                ProductFits(voices'[i].out * module.mixing_volume * global_volume,
                            IF module.mode \in {"IT", "ITSample"} THEN 2 ELSE 4)
       /\ halt' = NoHalt =>
            out' = HeldMix(voices', module.mixing_volume * global_volume,
                           IF module.mode \in {"IT", "ITSample"} THEN 2 ELSE 4,
                           Len(voices'))]_vars

\* C10 happens: every channel returned the largest frame at the largest
\* gain, and the sum was held at the upper bound
C10_MixSaturated ==
    /\ halt = NoHalt
    /\ module.mixing_volume = 255
    /\ global_volume = max_global_volume(module.mode)
    /\ \A i \in 1..Len(voices) : voices[i].called /\ voices[i].out = I16Max
    /\ out = I32Max

----------------------------------------------------------------------------
(* Runs over global-volume effects: a two-row pattern of SetGlobalVol and  *)
(* GlobalVolSlide columns in every mode, three ticks per row.              *)

GlobalVolEffects ==
    {NoEffect}
    \cup {Fx("SetGlobalVol", v) : v \in {0, 64, 65, 128, 129, 255}}
    \cup {Fx("GlobalVolSlide", x) : x \in {0, 1, 31, 240, 241, 255}}

GlobalVolModules ==
    {[BaseModule(mode, <<>>,
                 <<<<Row(Only(e1), Only(o)), Row(Only(e2), Empty)>>>>,
                 <<0, END_MARKER>>, 3)
        EXCEPT !.initial_global_volume = gv, !.fast_volume_slides = fast] :
        mode \in Modes, e1 \in GlobalVolEffects,
        e2 \in {NoEffect, Fx("SetGlobalVol", 64), Fx("SetGlobalVol", 129),
                Fx("GlobalVolSlide", 0), Fx("GlobalVolSlide", 241)},
        o \in {NoEffect, Fx("SetGlobalVol", 200)}, gv \in {0, 60, 128},
        fast \in BOOLEAN}

GlobalVolInit ==
    \E m \in GlobalVolModules :
        /\ m.initial_global_volume <= max_global_volume(m.mode)
        /\ from_module(m, 1, TRUE)

GlobalVolSpec == GlobalVolInit /\ [][Next]_vars

\* the effects of the row the cursor is on; none when it is on no row
RowEffects(pattern, row) ==
    IF pattern < Len(module.patterns)
    THEN IF row < Len(module.patterns[pattern + 1])
         THEN {module.patterns[pattern + 1][row + 1][i].effect :
                    i \in 1..Len(module.patterns[pattern + 1][row + 1])}
         ELSE {}
    ELSE {}

\* the ceiling of the global volume: 64 for MOD and S3M, 128 for IT and ITSample
Ceiling == IF module.mode \in {"IT", "ITSample"} THEN 128 ELSE 64

\* C2: from an initial_global_volume within the mode's ceiling, every
\* process() call leaves global_volume within 0..ceiling; and a call whose
\* row holds no GlobalVolSlide, and no SetGlobalVol but of a value above the
\* ceiling, leaves global_volume unchanged
C2_GlobalVolumeInRange ==
    [][/\ global_volume' >= 0
       /\ global_volume' <= Ceiling
       /\ (\A e \in RowEffects(current_pattern', current_row') :
                /\ e.kind # "GlobalVolSlide"
                /\ e.kind = "SetGlobalVol" => e.value > Ceiling)
            => global_volume' = global_volume]_vars

\* C2 happens: a row with SetGlobalVol(200) beside a slide up by 15 per tick
\* was entered at volume 60, and the slide has stopped at the ceiling of 64
C2_SlideStoppedAtCeiling ==
    /\ halt = NoHalt
    /\ module.mode = "S3M"
    /\ module.initial_global_volume = 60
    /\ ticks_passed > 0
    /\ Fx("GlobalVolSlide", 240) \in RowEffects(current_pattern, current_row)
    /\ Fx("SetGlobalVol", 200) \in RowEffects(current_pattern, current_row)
    /\ global_volume = 64

----------------------------------------------------------------------------
(* Runs over slides: row 0 holds a slide, a tone portamento or nothing in  *)
(* column 0 and a volume slide of an instrument of default volume 32 in    *)
(* every other column; S3M and IT, fast volume slides on and off, three    *)
(* ticks per row and one tick per process() call.                          *)

SlideInit ==
    \E mode \in {"S3M", "IT"}, fast \in BOOLEAN, checks \in BOOLEAN,
       first \in {Empty, Column(NoteOn(60), 1, VolNone, Fx("TonePorta", 1))}
                 \cup {Column(NoteNone, 1, VolNone, Fx("VolSlide", v)) :
                            v \in {1, 16, 31, 241}}
                 \cup {Only(Fx("GlobalVolSlide", v)) : v \in {1, 16, 31, 241}},
       other \in {Column(NoteNone, 1, VolNone, Fx("VolSlide", v)) :
                            v \in {1, 16, 31, 241}} :
        from_module(
            [BaseModule(mode, <<Sample(<<8, 16, 24, 32>>, "None", 0, 0, 4, 32)>>,
                        <<<<Row(first, other), Row(Empty, Empty)>>>>,
                        <<0, END_MARKER>>, 3)
                EXCEPT !.initial_global_volume = 32, !.fast_volume_slides = fast],
            8, checks)

SlideSpec == SlideInit /\ [][Next]_vars

\* C11: without fast volume slides, a fine VolSlide in any column of a row
\* is applied on tick 0 of the row and on no other tick, and a regular
\* VolSlide on every tick but tick 0, whatever the other columns hold
C11_SlidesOnTheirTicks ==
    [][~module.fast_volume_slides =>
        \A i \in 1..Len(TickedRow') :
            (TickedRow'[i].effect.kind = "VolSlide" /\ TickedRow'[i].effect.value # 0) =>
                channels'[i].volume =
                    IF FineSlide(TickedRow'[i].effect.value) = PlayRowRan'
                    THEN SlidBy(VolumeAtTick(i, TickedRow'[i]),
                                TickedRow'[i].effect.value, MAX_VOLUME)
                    ELSE VolumeAtTick(i, TickedRow'[i])]_vars

\* C18: a regular VolSlide or GlobalVolSlide that the dispatch reaches is
\* applied on every tick of its row, tick 0 included, with fast volume
\* slides, and on every tick but tick 0 without
C18_FastSlidesOnTickZero ==
    [][\A i \in 1..Len(TickedRow') :
        (/\ Dispatched(TickedRow', i)
         /\ TickedRow'[i].effect.value # 0
         /\ ~FineSlide(TickedRow'[i].effect.value)) =>
            /\ TickedRow'[i].effect.kind = "VolSlide" =>
                channels'[i].volume =
                    IF ~PlayRowRan' \/ module.fast_volume_slides
                    THEN SlidBy(VolumeAtTick(i, TickedRow'[i]),
                                TickedRow'[i].effect.value, MAX_VOLUME)
                    ELSE VolumeAtTick(i, TickedRow'[i])
            /\ TickedRow'[i].effect.kind = "GlobalVolSlide" =>
                global_volume' =
                    IF ~PlayRowRan' \/ module.fast_volume_slides
                    THEN SlidBy(global_volume, TickedRow'[i].effect.value,
                                max_global_volume(module.mode))
                    ELSE global_volume]_vars

\* C18 happens: with fast volume slides, the call that entered a row with a
\* regular slide up by 1 in column 0 left the volume at 33, one step above
\* the instrument's default of 32
C18_SlidOnTickZero ==
    /\ halt = NoHalt
    /\ module.fast_volume_slides
    /\ PlayRowRan
    /\ TickedRow # <<>>
    /\ TickedRow[1] = Column(NoteNone, 1, VolNone, Fx("VolSlide", 16))
    /\ channels[1].volume = 33

----------------------------------------------------------------------------
(* Runs over pitch effects: row 0 starts note 60 of a sample, or aims a    *)
(* tone portamento or an arpeggio at it; row 1 holds a tone portamento     *)
(* toward another note or an arpeggio, with a parameter or reading its     *)
(* memory; every mode, linear and Amiga slides, three or six ticks a row.  *)

PitchInit ==
    \E mode \in Modes, linear \in BOOLEAN, checks \in BOOLEAN,
       base_frequency \in {8363, 4000}, speed \in {3, 6},
       e0 \in {NoEffect, Fx("TonePorta", 32), Fx("Arpeggio", 71),
               Fx("Arpeggio", 12)},
       c1 \in {Column(NoteOn(key), 0, VolNone, Fx("TonePorta", v)) :
                    key \in {48, 67, 72}, v \in {0, 1, 32, 255}}
              \cup {Only(Fx("Arpeggio", v)) : v \in {0, 55}} :
        from_module(
            [BaseModule(mode,
                        <<Sample(<<8, 16, 24, 32>>, "None", 0, 0, base_frequency, 64)>>,
                        <<<<Row(Note(1, e0), Empty), Row(c1, Empty),
                            Row(Empty, Empty)>>>>,
                        <<0, END_MARKER>>, speed)
                EXCEPT !.linear_freq_slides = linear],
            8, checks)

PitchSpec == PitchInit /\ [][Next]_vars

\* the frequency a tone portamento in column i of the ticked row aims at:
\* the pitch of the column's note, or of the last note aimed at
TonePortaTarget(i) ==
    PitchFreq(IF TickedRow[i].note.kind = "On" THEN TickedRow[i].note.key
              ELSE channels[i].last_note,
              SampleAt(channels[i].current_sample_index).base_frequency)

\* did the last process() call run tone_portamento on channel i
TonePortaRan(i) ==
    /\ i <= Len(TickedRow)
    /\ Dispatched(TickedRow, i)
    /\ TickedRow[i].effect.kind = "TonePorta"
    /\ ticks_passed > 0

\* C12: a tone portamento step moves freq toward its target and never past
\* it: from below, freq does not fall and stays at or below the target; from
\* above, it does not rise and stays at or above it; linear and Amiga slides
C12_TonePortaMonotone ==
    [][\A i \in 1..Len(channels) :
        TonePortaRan(i)' =>
            /\ channels[i].freq < TonePortaTarget(i)' =>
                /\ channels'[i].freq >= channels[i].freq
                /\ channels'[i].freq <= TonePortaTarget(i)'
            /\ channels[i].freq > TonePortaTarget(i)' =>
                /\ channels'[i].freq <= channels[i].freq
                /\ channels'[i].freq >= TonePortaTarget(i)']_vars

\* C16: in every mode, a tone portamento that runs with parameter 0 slides
\* with the channel's porta_memory, the most recent nonzero TonePorta
\* parameter, toward the pitch of the row's note; with a nonzero parameter
\* it slides with that parameter and remembers it
C16_TonePortaMemory ==
    [][\A i \in 1..Len(channels) :
        TonePortaRan(i)' =>
            /\ channels'[i].porta_memory =
                    IF TickedRow'[i].effect.value # 0
                    THEN TickedRow'[i].effect.value ELSE channels[i].porta_memory
            /\ channels'[i].freq =
                    TonePortaSlide(Frame(channels[i]), module.linear_freq_slides,
                                   IF TickedRow'[i].effect.value # 0
                                   THEN TickedRow'[i].effect.value
                                   ELSE channels[i].porta_memory,
                                   TonePortaTarget(i)').c.freq]_vars

\* C16 happens: in S3M mode, after a row of note 60 with TonePorta(0x20),
\* the second tick of a row of note 72 with TonePorta(0) has moved freq
\* from the pitch of note 60 toward the pitch of note 72 by two steps of 0x20
C16_SlidFromMemory ==
    /\ module.mode = "S3M"
    /\ module.linear_freq_slides
    /\ module.samples[1].base_frequency = 8363
    /\ module.patterns[1][1][1].effect = Fx("TonePorta", 32)
    /\ current_row = 1
    /\ ticks_passed = 2
    /\ TonePortaRan(1)
    /\ TickedRow[1] = Column(NoteOn(72), 0, VolNone, Fx("TonePorta", 0))
    /\ channels[1].porta_memory = 32
    /\ channels[1].s3m_effect_memory = 0
    /\ channels[1].freq =
            MulDiv(MulDiv(PitchFreq(60, 8363), LINEAR_UP(32), Q14), LINEAR_UP(32), Q14)
    /\ channels[1].freq > PitchFreq(60, 8363)
    /\ channels[1].freq < PitchFreq(72, 8363)

\* C13: every dispatch of an arpeggio sets freq by the selector and moves
\* the selector on, 0 -> 1 -> 2 -> 0, and a row with an arpeggio starts at
\* selector 0: its ticks set freq to base_freq, to the pitch of the current
\* note plus the high nibble and to the pitch of the note plus the low
\* nibble, in that order, the nibbles being those of the parameter or, for
\* Arpeggio(0), of the last nonzero parameter
C13_ArpeggioCycle ==
    [][/\ \A i \in 1..Len(channels') : channels'[i].arpeggio_selector \in {0, 1, 2}
       /\ \A i \in 1..Len(TickedRow') :
            (Dispatched(TickedRow', i) /\ TickedRow'[i].effect.kind = "Arpeggio") =>
                /\ channels'[i].arpeggio_selector =
                        ((IF PlayRowRan' THEN 0 ELSE channels[i].arpeggio_selector) + 1) % 3
                /\ channels'[i].freq =
                        CASE channels'[i].arpeggio_selector = 1 -> channels'[i].base_freq
                          [] channels'[i].arpeggio_selector = 2 ->
                                PitchFreq(channels'[i].current_note
                                          + HiNibble(IF TickedRow'[i].effect.value # 0
                                                     THEN TickedRow'[i].effect.value
                                                     ELSE channels[i].arpeggio_memory),
                                          SampleAt(channels'[i].current_sample_index).base_frequency)
                          [] channels'[i].arpeggio_selector = 0 ->
                                PitchFreq(channels'[i].current_note
                                          + LoNibble(IF TickedRow'[i].effect.value # 0
                                                     THEN TickedRow'[i].effect.value
                                                     ELSE channels[i].arpeggio_memory),
                                          SampleAt(channels'[i].current_sample_index).base_frequency)]_vars

\* C13 happens: after a row of note 60 with Arpeggio(0x47), the third tick
\* of a row with Arpeggio(0) has set freq to the pitch of note 60 + 7
C13_ArpeggioThirdTick ==
    /\ halt = NoHalt
    /\ module.patterns[1][1][1].effect = Fx("Arpeggio", 71)
    /\ current_row = 1
    /\ ticks_passed = 2
    /\ TickedRow # <<>>
    /\ TickedRow[1] = Only(Fx("Arpeggio", 0))
    /\ channels[1].arpeggio_memory = 71
    /\ channels[1].arpeggio_selector = 0
    /\ channels[1].freq = PitchFreq(67, module.samples[1].base_frequency)
    /\ channels[1].freq # channels[1].base_freq

----------------------------------------------------------------------------
(* Runs over pattern breaks: a pattern of one row with PatBreak(r), for    *)
(* every r of a u8, into a pattern of PatternRows empty rows; every mode,  *)
(* one tick per row.                                                       *)

BreakInit ==
    \E mode \in Modes, r \in 0..255 :
        from_module(
            BaseModule(mode, <<>>,
                       <<<<Row(Only(Fx("PatBreak", r)), Empty)>>,
                         [k \in 1..PatternRows |-> Row(Empty, Empty)]>>,
                       <<0, 1, END_MARKER>>, 1),
            8, TRUE)

BreakSpec == BreakInit /\ [][Next]_vars

\* C14: the row played after a row with PatBreak(r) is
\* (r & 0xF) + (r >> 4) * 10 in MOD and S3M modes and r in IT and ITSample
\* modes, for every r in 0..=255
C14_PatBreakDecoded ==
    [][(PlayRowRan' /\ halt' = NoHalt) =>
        \A e \in RowEffects(current_pattern, current_row) :
            e.kind = "PatBreak" =>
                current_row' = IF module.mode \in {"MOD", "S3M"}
                               THEN (e.value % 16) + (e.value \div 16) * 10
                               ELSE e.value]_vars

\* C14 happens: in S3M mode the row after PatBreak(0x14) is row 14 of the
\* next pattern
C14_BreakToRow14 ==
    /\ halt = NoHalt
    /\ module.mode = "S3M"
    /\ module.patterns[1][1][1].effect = Fx("PatBreak", 20)
    /\ PlayRowRan
    /\ since_row = 0
    /\ row_gap = 1
    /\ current_position = 1
    /\ current_pattern = 1
    /\ current_row = 14

----------------------------------------------------------------------------
(* Runs from a fresh player: a one-row pattern whose row is empty, or      *)
(* holds a note with a volume slide beside a global volume slide; every    *)
(* mode, one or six ticks per row, at a samplerate of 100 and of 48000.    *)

FreshInit ==
    \E mode \in Modes, speed \in {1, 6}, sr \in {100, 48000},
       row \in {Row(Empty, Empty),
                Row(Note(1, Fx("VolSlide", 31)), Only(Fx("GlobalVolSlide", 1)))} :
        from_module(
            BaseModule(mode, <<Sample(<<8, 16, 24, 32>>, "None", 0, 0, 8363, 32)>>,
                       <<<<row>>>>, <<0, END_MARKER>>, speed),
            sr, TRUE)

FreshSpec == FreshInit /\ [][Next]_vars

\* C17: until the first row is entered, every process() call returns 0 and
\* leaves the channels, the global volume, the tempo and the speed as
\* from_module built them; and the first row is entered no sooner than
\* after speed * floor(samplerate * 2.5 / tempo) calls, 5760 for a
\* samplerate of 48000, a tempo of 125 and a speed of 6
C17_SilentUntilFirstRow ==
    [][/\ current_row' = ROW_NOT_STARTED =>
            /\ halt' = NoHalt
            /\ out' = 0
            /\ channels' = [i \in 1..NumChannels |-> NewChannel]
            /\ global_volume' = module.initial_global_volume
            /\ current_tempo' = module.initial_tempo
            /\ current_speed' = module.initial_speed
       /\ (current_row = ROW_NOT_STARTED /\ current_row' # ROW_NOT_STARTED) =>
            /\ out' = 0
            /\ ticks_passed * (SamplesPerTick(current_tempo) + 1) + tick_counter
                    >= current_speed * SamplesPerTick(current_tempo)]_vars

\* C17 happens: at 48000 Hz, tempo 125 and speed 6, with a note and slides
\* in the first row, 5760 calls have been made (five ticks of 961 calls and
\* 955 calls more), the last returned 0 and no row has been entered
C17_Silent5760Calls ==
    /\ samplerate = 48000
    /\ current_tempo = 125
    /\ current_speed = 6
    /\ module.patterns[1][1][1].note = NoteOn(60)
    /\ current_row = ROW_NOT_STARTED
    /\ ticks_passed = 5
    /\ tick_counter = 955
    /\ ticks_passed * 961 + tick_counter = 5760
    /\ out = 0
    /\ halt = NoHalt

----------------------------------------------------------------------------
(* Runs through whole songs: patterns of two rows, one row and three rows  *)
(* without PosJump or PatBreak, in playlists with skip markers, repeated   *)
(* patterns and entries behind the end marker; notes, SetSpeed and         *)
(* SetTempo in the rows; S3M and IT.  The host keeps calling process()     *)
(* for as long as the process runs.                                        *)

SongInit ==
    \E mode \in {"S3M", "IT"}, speed \in {1, 2},
       e \in {NoEffect, Fx("SetSpeed", 3), Fx("SetTempo", 10)},
       playlist \in {<<0, END_MARKER>>, <<0, 1, END_MARKER>>,
                     <<1, 0, 2, END_MARKER>>, <<0, SKIP_MARKER, 1, END_MARKER>>,
                     <<2, SKIP_MARKER, SKIP_MARKER, 0, END_MARKER>>,
                     <<0, 0, END_MARKER>>, <<1, END_MARKER, 2, END_MARKER>>} :
        from_module(
            BaseModule(mode, <<Sample(<<8, 16, 24, 32>>, "None", 0, 0, 4, 64)>>,
                       <<<<Row(Note(1, e), Empty), Row(Empty, Empty)>>,
                         <<Row(Empty, Note(1, NoEffect))>>,
                         <<Row(Empty, Empty), Row(Only(e), Empty), Row(Empty, Empty)>>>>,
                       playlist, speed),
            8, TRUE)

\* a process() call as the host's scheduling sees it: the process runs, and
\* the call moves the tick clock or the row cursor, or ends the song
Called ==
    /\ halt = NoHalt
    /\ tick_counter <= MaxTickCounter
    /\ tick_counter' \in {0, tick_counter + 1}
    /\ ticks_passed' \in {0, ticks_passed, ticks_passed + 1}
    /\ current_row' \in {0, current_row, current_row + 1}
    /\ current_position' \in current_position..Len(module.playlist)
    /\ halt' \in {NoHalt, ExitEndOfSong}

\* the host calls process() again for as long as the process runs
SongSpec ==
    /\ SongInit
    /\ [][Next]_vars
    /\ WF_<<tick_counter, ticks_passed, current_row, current_position, halt>>(Called)

\* the playlist position played after position p: the first one behind it
\* that holds no skip marker
NextPlayed(p) ==
    CHOOSE q \in (p + 1)..(Len(module.playlist) - 1) :
        \A k \in (p + 1)..q : (module.playlist[k + 1] = SKIP_MARKER) <=> (k # q)

\* C19: the song ends after finitely many process() calls, and until then
\* the rows are entered in order: first row 0 of playlist position 0, after
\* a row that is not the last of its pattern the next row of the pattern,
\* and after a last row row 0 of the next position that holds no skip
\* marker; the song ends when that position holds the end marker, and in
\* no other way
C19_PlaysThroughToEnd ==
    /\ <>(halt = ExitEndOfSong)
    /\ [][/\ halt' \in {NoHalt, ExitEndOfSong}
          /\ (PlayRowRan' \/ halt' = ExitEndOfSong) =>
                IF current_row = ROW_NOT_STARTED THEN
                    /\ halt' = NoHalt
                    /\ current_position' = 0
                    /\ current_pattern' = module.playlist[1]
                    /\ current_row' = 0
                ELSE IF current_row + 1 < Len(module.patterns[current_pattern + 1]) THEN
                    /\ halt' = NoHalt
                    /\ current_position' = current_position
                    /\ current_pattern' = current_pattern
                    /\ current_row' = current_row + 1
                ELSE
                    /\ current_position' = NextPlayed(current_position)
                    /\ current_pattern' = module.playlist[current_position' + 1]
                    /\ current_row' = 0
                    /\ (halt' = ExitEndOfSong) <=> (current_pattern' = END_MARKER)]_vars

\* C19 happens: the song of playlist [2, 254, 254, 0, 255] has ended on the
\* end marker at position 4, behind the last row of pattern 0
C19_SongEnded ==
    /\ module.playlist = <<2, SKIP_MARKER, SKIP_MARKER, 0, END_MARKER>>
    /\ halt = ExitEndOfSong
    /\ ran = <<"advance_row">>
    /\ current_position = 4
    /\ current_pattern = END_MARKER

----------------------------------------------------------------------------
(* Runs over notes beside a tone portamento: row 0 starts note 60 of a     *)
(* looping sample, row 1 holds note 72 with an instrument or none, a       *)
(* volume column that is empty, a volume or a tone portamento, and an      *)
(* effect; S3M and IT, both builds, two ticks per row.                     *)

PortaNoteInit ==
    \E mode \in {"S3M", "IT"}, checks \in BOOLEAN, instrument \in {0, 1, 2},
       vol \in {VolNone, Volume(40), VolTonePorta(1)},
       e \in {NoEffect, Fx("TonePorta", 1), Fx("VolSlide", 31), Fx("Retrig", 1),
              Fx("SampleOffset", 1), Fx("Arpeggio", 71)} :
        from_module(
            BaseModule(mode,
                       <<Sample(<<8, 16, 24, 32>>, "Forward", 0, 4, 4, 64),
                         Sample(<<8, 16, 24, 32>>, "Forward", 0, 4, 8, 48)>>,
                       <<<<Row(Note(1, NoEffect), Empty),
                           Row(Column(NoteOn(72), instrument, vol, e), Empty),
                           Row(Empty, Empty)>>>>,
                       <<0, END_MARKER>>, 2),
            8, checks)

PortaNoteSpec == PortaNoteInit /\ [][Next]_vars

\* C21: the row entry of a column with a note On(n) whose effect is
\* TonePorta, or whose volume column is TonePorta, does not start the note:
\* play_row leaves the channel's playing, position, current_note and
\* base_freq as the mixer left them, and so does the whole process() call,
\* but for the position when the column's own effect is a Retrig
C21_TonePortaKeepsNote ==
    [][(PlayRowRan' /\ halt' = NoHalt) =>
        \A i \in 1..Len(TickedRow') :
            (/\ TickedRow'[i].note.kind = "On"
             /\ \/ TickedRow'[i].effect.kind = "TonePorta"
                \/ TickedRow'[i].vol.kind = "TonePorta") =>
                /\ RowEntered.channels[i].playing = Mixed.channels[i].playing
                /\ RowEntered.channels[i].position = Mixed.channels[i].position
                /\ RowEntered.channels[i].current_note = channels[i].current_note
                /\ RowEntered.channels[i].base_freq = channels[i].base_freq
                /\ channels'[i].playing = Mixed.channels[i].playing
                /\ channels'[i].current_note = channels[i].current_note
                /\ channels'[i].base_freq = channels[i].base_freq
                /\ TickedRow'[i].effect.kind # "Retrig" =>
                        channels'[i].position = Mixed.channels[i].position]_vars

\* C21 happens: while note 60 sounded, one frame into its sample, a row of
\* note 72 with a tone portamento in the volume column and an instrument
\* was entered: the channel still plays note 60 from where it was
C21_NoteKeptSounding ==
    /\ halt = NoHalt
    /\ PlayRowRan
    /\ current_row = 1
    /\ TickedRow # <<>>
    /\ TickedRow[1] = Column(NoteOn(72), 2, VolTonePorta(1), NoEffect)
    /\ channels[1].playing
    /\ channels[1].current_note = 60
    /\ channels[1].base_freq = PitchFreq(60, 4)
    /\ channels[1].position = FromInt(1)
    /\ channels[1].current_sample_index = 1

----------------------------------------------------------------------------
(* Runs over the order of a tick: each of the two columns of row 0 holds   *)
(* nothing, a fine or a regular volume slide, a fine global volume slide,  *)
(* a tone portamento or a volume slide with tone portamento; S3M and IT,   *)
(* fast volume slides on and off, both builds, three ticks per row.        *)

TickOrderColumns ==
    {Empty, Column(NoteOn(60), 1, VolNone, Fx("TonePorta", 1)),
     Column(NoteNone, 1, VolNone, Fx("VolSlideTonePorta", 31)),
     Column(NoteNone, 1, VolNone, Fx("VolSlide", 31)),
     Column(NoteNone, 1, VolNone, Fx("VolSlide", 16)),
     Only(Fx("GlobalVolSlide", 31))}

TickOrderInit ==
    \E mode \in {"S3M", "IT"}, fast \in BOOLEAN, checks \in BOOLEAN,
       c0 \in TickOrderColumns, c1 \in TickOrderColumns :
        from_module(
            [BaseModule(mode, <<Sample(<<8, 16, 24, 32>>, "None", 0, 0, 4, 32)>>,
                        <<<<[i \in 1..NumChannels |-> IF i = 1 THEN c0 ELSE c1],
                            Row(Empty, Empty)>>>>,
                        <<0, END_MARKER>>, 3)
                EXCEPT !.initial_global_volume = 32, !.fast_volume_slides = fast],
            8, checks)

TickOrderSpec == TickOrderInit /\ [][Next]_vars

\* C22: on tick 0 of a row, the first column k whose effect is TonePorta or
\* VolSlideTonePorta ends the tick: the call leaves the player as the
\* effects of columns 0..k, one after the other, leave it (of column k
\* itself the vol_slide of a VolSlideTonePorta and nothing else), and every
\* column behind k as play_row left it
C22_TonePortaEndsTick ==
    [][(PlayRowRan' /\ halt' = NoHalt) =>
        \A k \in 1..Len(TickedRow') :
            (/\ Dispatched(TickedRow', k)
             /\ TickedRow'[k].effect.kind \in {"TonePorta", "VolSlideTonePorta"}) =>
                /\ channels' = TickedThrough(RowEntered, TickedRow', k).channels
                /\ global_volume' =
                        TickedThrough(RowEntered, TickedRow', k).global_volume
                /\ \A j \in (k + 1)..Len(channels) :
                        channels'[j] = RowEntered.channels[j]
                /\ (\A j \in 1..k : TickedRow'[j].effect.kind # "GlobalVolSlide")
                        => global_volume' = RowEntered.global_volume
                /\ channels'[k].freq = RowEntered.channels[k].freq
                /\ channels'[k].porta_memory = RowEntered.channels[k].porta_memory]_vars

\* C22 happens: a row was entered whose column 0 holds VolSlideTonePorta
\* with a fine slide up by 1 and whose column 1 holds the same fine slide as
\* a VolSlide: column 0 slid from the default volume 32 to 33, column 1 is
\* still at 32
C22_LaterColumnSkipped ==
    /\ halt = NoHalt
    /\ PlayRowRan
    /\ ticks_passed = 0
    /\ TickedRow # <<>>
    /\ TickedRow[1] = Column(NoteNone, 1, VolNone, Fx("VolSlideTonePorta", 31))
    /\ TickedRow[2] = Column(NoteNone, 1, VolNone, Fx("VolSlide", 31))
    /\ channels[1].volume = 33
    /\ channels[2].volume = 32

----------------------------------------------------------------------------
(* Runs over retriggers: row 0 starts note 60 of a looping sample at a     *)
(* volume of 0..64 with Retrig(xy), for every volume operation x and a     *)
(* period y of 1..3, row 1 goes on with Retrig(0); S3M and IT, both        *)
(* builds, four ticks per row.                                             *)

RetrigInit ==
    \E mode \in {"S3M", "IT"}, checks \in BOOLEAN, op \in 0..15, n \in 1..3,
       v \in 0..MAX_VOLUME :
        from_module(
            BaseModule(mode, <<Sample(<<8, 16, 24, 32>>, "Forward", 0, 4, 4, 64)>>,
                       <<<<Row(Column(NoteOn(60), 1, Volume(v),
                                      Fx("Retrig", op * 16 + n)), Empty),
                           Row(Only(Fx("Retrig", 0)), Empty)>>>>,
                       <<0, END_MARKER>>, 4),
            8, checks)

RetrigSpec == RetrigInit /\ [][Next]_vars

\* the parameter a Retrig in column i of the ticked row runs with: its own,
\* or for Retrig(0) the channel's memory
RetrigValue(i) ==
    IF TickedRow'[i].effect.value # 0 THEN TickedRow'[i].effect.value
    ELSE IF module.mode = "S3M" THEN channels[i].s3m_effect_memory
    ELSE channels[i].retrigger_memory

\* the number of the dispatch of the last process() call among the
\* dispatches of the song, two rows of current_speed ticks each
DispatchNumber == current_row * current_speed + ticks_passed + 1

\* C23 as stated: each dispatch of a Retrig of period N >= 1 increments
\* retrigger_ticks and, when it has reached N, resets position and
\* retrigger_ticks to 0
C23_RetrigCountsThenResets ==
    [][halt' = NoHalt =>
        \A i \in 1..Len(TickedRow') :
            (/\ Dispatched(TickedRow', i)
             /\ TickedRow'[i].effect.kind = "Retrig"
             /\ LoNibble(RetrigValue(i)) >= 1) =>
                IF channels[i].retrigger_ticks + 1 >= LoNibble(RetrigValue(i))
                THEN /\ channels'[i].position = 0
                     /\ channels'[i].retrigger_ticks = 0
                ELSE /\ channels'[i].position = TickStart.channels[i].position
                     /\ channels'[i].retrigger_ticks =
                            channels[i].retrigger_ticks + 1]_vars

\* C23 as amended: each dispatch of a Retrig of period N >= 1 first resets
\* position and retrigger_ticks to 0 when retrigger_ticks has reached N,
\* and then increments retrigger_ticks; so from retrigger_ticks = 0 the
\* d-th dispatch leaves retrigger_ticks at ((d - 1) mod N) + 1, the first
\* reset is that of dispatch N + 1, and every later one N dispatches on
C23_RetrigResetsThenCounts ==
    [][halt' = NoHalt =>
        \A i \in 1..Len(TickedRow') :
            (/\ Dispatched(TickedRow', i)
             /\ TickedRow'[i].effect.kind = "Retrig"
             /\ LoNibble(RetrigValue(i)) >= 1) =>
                /\ IF channels[i].retrigger_ticks >= LoNibble(RetrigValue(i))
                   THEN /\ channels'[i].position = 0
                        /\ channels'[i].retrigger_ticks = 1
                   ELSE /\ channels'[i].position = TickStart.channels[i].position
                        /\ channels'[i].retrigger_ticks =
                               channels[i].retrigger_ticks + 1
                /\ channels'[i].retrigger_ticks =
                        ((DispatchNumber' - 1) % LoNibble(RetrigValue(i))) + 1
                /\ (channels[i].retrigger_ticks >= LoNibble(RetrigValue(i))) <=>
                        (/\ DispatchNumber' > 1
                         /\ (DispatchNumber' - 1) % LoNibble(RetrigValue(i)) = 0)]_vars

\* C23 happens: the seventh dispatch of a Retrig of period 3, on the third
\* tick of the row of Retrig(0), has restarted the sample a second time
C23_SecondRestart ==
    /\ halt = NoHalt
    /\ module.patterns[1][1][1].effect = Fx("Retrig", 3)
    /\ current_row = 1
    /\ TickedRow # <<>>
    /\ TickedRow[1] = Only(Fx("Retrig", 0))
    /\ DispatchNumber = 7
    /\ channels[1].playing
    /\ channels[1].position = 0
    /\ channels[1].retrigger_ticks = 1

\* C24: the volume operation of a Retrig(xy) never raises the volume for
\* x in 1..7, saturating at 0 and never underflowing, never lowers it for
\* x in 9..15, and leaves it unchanged for x = 0 and x = 8, from every
\* volume in 0..64
C24_RetrigVolumeDirection ==
    [][/\ halt' # "panic: arithmetic overflow"
       /\ halt' = NoHalt =>
            \A i \in 1..Len(TickedRow') :
                (/\ Dispatched(TickedRow', i)
                 /\ TickedRow'[i].effect.kind = "Retrig"
                 /\ TickStart.channels[i].volume \in 0..MAX_VOLUME) =>
                    /\ HiNibble(RetrigValue(i)) \in 1..7 =>
                            channels'[i].volume <= TickStart.channels[i].volume
                    /\ HiNibble(RetrigValue(i)) \in 9..15 =>
                            channels'[i].volume >= TickStart.channels[i].volume
                    /\ HiNibble(RetrigValue(i)) \in {0, 8} =>
                            channels'[i].volume = TickStart.channels[i].volume]_vars

----------------------------------------------------------------------------
(* Runs over jumps: pattern 0 of two rows with a PosJump, a PatBreak or    *)
(* nothing in each column of its first row, pattern 1 of nineteen rows     *)
(* with the same in its first row; playlists with a skip marker, a         *)
(* repeated pattern and the end marker behind either pattern; S3M and IT,  *)
(* one tick per row.                                                       *)

JumpInit ==
    \E mode \in {"S3M", "IT"},
       playlist \in {<<0, END_MARKER>>, <<0, 1, END_MARKER>>, <<1, 0, END_MARKER>>,
                     <<0, SKIP_MARKER, 1, END_MARKER>>, <<0, 1, 0, END_MARKER>>},
       e0 \in {NoEffect} \cup {Fx("PatBreak", r) : r \in {0, 1, 2, 16, 18}}
                         \cup {Fx("PosJump", q) : q \in 0..3},
       e1 \in {NoEffect, Fx("PatBreak", 1), Fx("PosJump", 1)},
       e2 \in {NoEffect, Fx("PatBreak", 1), Fx("PosJump", 0)} :
        from_module(
            BaseModule(mode, <<>>,
                       <<<<Row(Only(e0), Only(e1)), Row(Empty, Empty)>>,
                         [k \in 1..19 |-> IF k = 1 THEN Row(Only(e2), Empty)
                                          ELSE Row(Empty, Empty)]>>,
                       playlist, 1),
            8, TRUE)

JumpSpec == JumpInit /\ [][Next]_vars

\* the parameters of the effects of one kind in the row the cursor is on
RowParameters(kind) ==
    {module.patterns[current_pattern + 1][current_row + 1][i].effect.value :
        i \in {j \in 1..NumChannels :
                module.patterns[current_pattern + 1][current_row + 1][j].effect.kind
                    = kind}}

\* does playlist position q hold a pattern, and the pattern a row `row`
IsRowAt(q, row) ==
    /\ q < Len(module.playlist)
    /\ module.playlist[q + 1] < Len(module.patterns)
    /\ row < Len(module.patterns[module.playlist[q + 1] + 1])

\* the playlist position a PatBreak leads to: the next one, or position 0
\* when the next one holds the end marker
BreakPosition ==
    IF current_position + 1 < Len(module.playlist)
    THEN IF module.playlist[current_position + 2] = END_MARKER
         THEN 0 ELSE current_position + 1
    ELSE current_position + 1

\* the row a PatBreak(r) names: decimal digits in MOD and S3M modes
BreakRow(r) ==
    IF module.mode \in {"MOD", "S3M"} THEN (r % 16) + (r \div 16) * 10 ELSE r

\* C25: after a row with PosJump(p) and no PatBreak, the row played is row
\* 0 of the pattern at playlist position p; after a row with PatBreak(r)
\* and no PosJump, it is the decoded break row of the pattern at the next
\* playlist position, or of the pattern at position 0 when the next
\* position holds the end marker, and the song does not end; wherever the
\* playlist holds a pattern with such a row there
C25_JumpAndBreakTargets ==
    [][(current_row # ROW_NOT_STARTED /\ Len(ran') > 0 /\ ran'[1] = "advance_row") =>
        /\ \A q \in 0..255 :
            (/\ RowParameters("PosJump") = {q}
             /\ RowParameters("PatBreak") = {}
             /\ IsRowAt(q, 0)) =>
                /\ halt' = NoHalt
                /\ PlayRowRan'
                /\ current_position' = q
                /\ current_pattern' = module.playlist[q + 1]
                /\ current_row' = 0
        /\ \A r \in 0..255 :
            (/\ RowParameters("PatBreak") = {r}
             /\ RowParameters("PosJump") = {}
             /\ IsRowAt(BreakPosition, BreakRow(r))) =>
                /\ halt' = NoHalt
                /\ PlayRowRan'
                /\ current_position' = BreakPosition
                /\ current_pattern' = module.playlist[BreakPosition + 1]
                /\ current_row' = BreakRow(r)]_vars

\* C25 happens: with playlist [0, 1, 255], row 0 of pattern 0 jumped to
\* position 1, and PatBreak(1) in row 0 of pattern 1, with the end marker
\* next, led to row 1 of pattern 0 at position 0, which no other row
\* leads to
C25_BreakWrapped ==
    /\ halt = NoHalt
    /\ PlayRowRan
    /\ module.playlist = <<0, 1, END_MARKER>>
    /\ module.patterns[1][1][1].effect = Fx("PosJump", 1)
    /\ module.patterns[1][1][2].effect = NoEffect
    /\ module.patterns[2][1][1].effect = Fx("PatBreak", 1)
    /\ current_position = 0
    /\ current_pattern = 0
    /\ current_row = 1

\* C26: after every advance_row that does not end the song, whether the
\* position changed by running off a pattern, by a PosJump to a playlist
\* position or by a PatBreak, current_pattern is a pattern of the module,
\* not the skip marker and not the end marker, and play_row runs on it
C26_PatternIsReal ==
    (/\ Len(ran) > 0
     /\ ran[1] = "advance_row"
     /\ halt \notin {ExitEndOfSong, "panic: playlist index"}) =>
        /\ current_pattern \notin {SKIP_MARKER, END_MARKER}
        /\ current_pattern < Len(module.patterns)
        /\ halt # "panic: patterns index"

----------------------------------------------------------------------------
(* Runs over effect memories: row 0 starts note 60 with an effect of a     *)
(* nonzero parameter, rows 1 and 2 hold effects of parameter 0, each a     *)
(* slide, a retrigger or in row 0 also a vibrato, an empty effect with a   *)
(* parameter or an arpeggio; S3M, IT and ITSample, both builds, two ticks  *)
(* per row.                                                                *)

MemoryKinds ==
    {"PortaUp", "PortaDown", "VolSlide", "VolSlideTonePorta", "VolSlideVibrato",
     "Retrig"}

MemoryInit ==
    \E mode \in {"S3M", "IT", "ITSample"}, checks \in BOOLEAN,
       k0 \in MemoryKinds \cup {"Vibrato", "None", "Arpeggio"}, v0 \in {18, 71},
       k1 \in MemoryKinds, k2 \in MemoryKinds :
        from_module(
            BaseModule(mode, <<Sample(<<8, 16, 24, 32>>, "Forward", 0, 4, 4, 48)>>,
                       <<<<Row(Note(1, Fx(k0, v0)), Empty),
                           Row(Only(Fx(k1, 0)), Empty),
                           Row(Only(Fx(k2, 0)), Empty)>>>>,
                       <<0, END_MARKER>>, 2),
            8, checks)

MemorySpec == MemoryInit /\ [][Next]_vars

\* the memory of an effect kind in the IT modes
MemorySlot(kind) ==
    CASE kind \in {"PortaUp", "PortaDown"} -> "porta_memory"
      [] kind \in {"VolSlide", "VolSlideTonePorta", "VolSlideVibrato"} -> "volume_memory"
      [] kind = "Retrig" -> "retrigger_memory"

\* the memory of an effect kind in the mode of the module
ModeSlot(kind) ==
    IF module.mode = "S3M" THEN "s3m_effect_memory" ELSE MemorySlot(kind)

AllSlots == {"s3m_effect_memory", "porta_memory", "volume_memory", "retrigger_memory"}

\* C27: a dispatched PortaUp, PortaDown, VolSlide, VolSlideTonePorta,
\* VolSlideVibrato or Retrig stores a nonzero parameter in the memory its
\* mode routes it to, s3m_effect_memory in S3M mode and porta_memory,
\* volume_memory or retrigger_memory in the IT modes, and in no other
\* memory; with parameter 0 it acts as with the value of that memory; a
\* Vibrato or None effect with a nonzero parameter stores it in
\* s3m_effect_memory in S3M mode and nowhere otherwise; no other effect
\* changes s3m_effect_memory
C27_MemoryByMode ==
    [][halt' = NoHalt =>
        \A i \in 1..Len(TickedRow') :
            /\ (Dispatched(TickedRow', i) /\ TickedRow'[i].effect.kind \in MemoryKinds) =>
                /\ channels'[i][ModeSlot(TickedRow'[i].effect.kind)] =
                        IF TickedRow'[i].effect.value # 0
                        THEN TickedRow'[i].effect.value
                        ELSE channels[i][ModeSlot(TickedRow'[i].effect.kind)]
                /\ \A slot \in AllSlots \ {ModeSlot(TickedRow'[i].effect.kind)} :
                        channels'[i][slot] = channels[i][slot]
                /\ channels'[i] =
                        TickColumn(TickStart, i,
                            [TickedRow'[i] EXCEPT !.effect.value =
                                channels'[i][ModeSlot(TickedRow'[i].effect.kind)]]
                        ).p.channels[i]
            /\ (Dispatched(TickedRow', i)
                /\ TickedRow'[i].effect.kind \in {"Vibrato", "None"}) =>
                /\ channels'[i].s3m_effect_memory =
                        IF module.mode = "S3M" /\ TickedRow'[i].effect.value # 0
                        THEN TickedRow'[i].effect.value
                        ELSE channels[i].s3m_effect_memory
                /\ \A slot \in AllSlots \ {"s3m_effect_memory"} :
                        channels'[i][slot] = channels[i][slot]
            /\ TickedRow'[i].effect.kind \notin MemoryKinds \cup {"Vibrato", "None"} =>
                channels'[i].s3m_effect_memory = channels[i].s3m_effect_memory]_vars

\* C27 happens: in S3M mode, after a row of a Vibrato with parameter 0x12,
\* the second tick of a row of VolSlide(0) has slid the volume down by 2
\* from the default volume 48, as VolSlide(0x12) does, and volume_memory
\* is still 0
C27_SlidFromVibratoParameter ==
    /\ halt = NoHalt
    /\ module.mode = "S3M"
    /\ module.patterns[1][1][1].effect = Fx("Vibrato", 18)
    /\ current_row = 1
    /\ ticks_passed = 1
    /\ TickedRow # <<>>
    /\ TickedRow[1] = Only(Fx("VolSlide", 0))
    /\ channels[1].s3m_effect_memory = 18
    /\ channels[1].volume_memory = 0
    /\ channels[1].volume = 46

\* the freq of channel i after the arpeggio step of a row entry on a
\* column of effect kind `kind`
FreqAfterArpeggio(i, kind) ==
    IF channels[i].arpeggio_state
       /\ ~(module.mode = "S3M" /\ kind \in {"PortaUp", "PortaDown"})
    THEN channels[i].base_freq ELSE channels[i].freq

\* does an effect of column i leave freq alone on tick 0 of its row: a
\* volume slide, a retrigger, a vibrato or no effect, or a porta whose
\* parameter in force is no fine slide
IdleOnTickZero(i, e) ==
    \/ e.kind \in {"None", "Vibrato", "VolSlide", "VolSlideVibrato",
                   "VolSlideTonePorta", "Retrig"}
    \/ /\ e.kind \in {"PortaUp", "PortaDown"}
       /\ HiNibble(IF e.value # 0 THEN e.value
                   ELSE channels[i][ModeSlot(e.kind)]) < 14

\* C28: at the entry of a row whose column starts no note, a channel that
\* ran an arpeggio in the row before has its freq back at base_freq,
\* unless the mode is S3M and the column's effect is PortaUp or PortaDown,
\* when its freq stays; its arpeggio_state is cleared either way; a
\* channel that ran none keeps its freq
C28_ArpeggioEnds ==
    [][(PlayRowRan' /\ halt' = NoHalt) =>
        \A i \in 1..Len(TickedRow') :
            /\ RowEntered.channels[i].arpeggio_state = FALSE
            /\ TickedRow'[i].effect.kind # "Arpeggio" =>
                    channels'[i].arpeggio_state = FALSE
            /\ TickedRow'[i].note.kind # "On" =>
                /\ RowEntered.channels[i].freq =
                        FreqAfterArpeggio(i, TickedRow'[i].effect.kind)
                /\ (Dispatched(TickedRow', i)
                    /\ IdleOnTickZero(i, TickedRow'[i].effect)) =>
                        channels'[i].freq =
                            FreqAfterArpeggio(i, TickedRow'[i].effect.kind)]_vars

\* C28 happens: in S3M mode a row of PortaUp(0) was entered after a row of
\* note 60 with Arpeggio(0x47) that ended on the pitch of note 64: the
\* channel is still at that pitch, and its arpeggio_state is cleared
C28_ArpeggioPitchKept ==
    /\ halt = NoHalt
    /\ module.mode = "S3M"
    /\ module.patterns[1][1][1].effect = Fx("Arpeggio", 71)
    /\ PlayRowRan
    /\ current_row = 1
    /\ TickedRow # <<>>
    /\ TickedRow[1] = Only(Fx("PortaUp", 0))
    /\ channels[1].base_freq = PitchFreq(60, 4)
    /\ channels[1].freq = PitchFreq(64, 4)
    /\ channels[1].freq # channels[1].base_freq
    /\ ~channels[1].arpeggio_state

----------------------------------------------------------------------------
(* Runs over the clock of a song that changes it: a pattern of three rows, *)
(* each with a SetSpeed, a SetTempo or nothing, played twice; an initial   *)
(* tempo of 125 or 10 and an initial speed of 1 or 3; at a samplerate of   *)
(* 8 a tick is 0 process() calls long at tempo 125, 2 at tempo 10, 4 at    *)
(* tempo 5 and 20 at tempo 1.                                              *)

ClockEffects ==
    {NoEffect, Fx("SetSpeed", 0), Fx("SetSpeed", 1), Fx("SetSpeed", 3),
     Fx("SetTempo", 1), Fx("SetTempo", 5), Fx("SetTempo", 10), Fx("SetTempo", 125)}

ClockInit ==
    \E tempo \in {10, 125}, speed \in {1, 3},
       e0 \in ClockEffects, e1 \in ClockEffects, e2 \in ClockEffects :
        from_module(
            [BaseModule("IT", <<>>,
                        <<<<Row(Only(e0), Empty), Row(Empty, Only(e1)),
                            Row(Only(e2), Empty)>>>>,
                        <<0, 0, END_MARKER>>, speed)
                EXCEPT !.initial_tempo = tempo],
            8, TRUE)

ClockSpec == ClockInit /\ [][Next]_vars

\* C29: in every state process() calls reach, tick_counter is at most
\* floor(samplerate * 2.5 / current_tempo), and ticks_passed is 0 or below
\* current_speed; speed and tempo change only in a call that enters a row,
\* which leaves tick_counter and ticks_passed at 0
C29_ClockWithinTick ==
    /\ [](halt \in {NoHalt, ExitEndOfSong} =>
            /\ tick_counter >= 0
            /\ tick_counter <= SamplesPerTick(current_tempo)
            /\ ticks_passed >= 0
            /\ ticks_passed = 0 \/ ticks_passed < current_speed)
    /\ [][(current_speed' # current_speed \/ current_tempo' # current_tempo) =>
            /\ PlayRowRan'
            /\ tick_counter' = 0
            /\ ticks_passed' = 0]_vars

\* C29 happens: a song that began at tempo 10 and speed 3 has come through
\* SetTempo(125) and SetSpeed(1) to a row with SetTempo(5), and is on the
\* last call of a tick there: tick_counter is 4 = floor(8 * 2.5 / 5)
C29_TempoChangedTwice ==
    /\ halt = NoHalt
    /\ module.initial_tempo = 10
    /\ module.initial_speed = 3
    /\ module.patterns[1][1][1].effect = Fx("SetTempo", 125)
    /\ module.patterns[1][2][2].effect = Fx("SetSpeed", 1)
    /\ module.patterns[1][3][1].effect = Fx("SetTempo", 5)
    /\ current_row = 2
    /\ current_tempo = 5
    /\ current_speed = 1
    /\ ticks_passed = 0
    /\ tick_counter = 4
    /\ tick_counter = SamplesPerTick(current_tempo)

====
